---------------------------- MODULE Spec2Model ----------------------------
(***************************************************************************)
(* A model of metagpt/repo_parser.py: the descriptor parsers               *)
(* (DotClassAttribute, DotReturn, DotClassMethod), the symbol extractor,   *)
(* the diagram ingestor and the namespace reconciler of RepoParser.        *)
(*                                                                         *)
(* A Python str is a sequence of one-character strings; indices are        *)
(* 0-based as in Python, and find/rfind answer -1 when nothing is found.   *)
(***************************************************************************)
EXTENDS Integers, Sequences, FiniteSets, TLC

VARIABLES
    pc,            \* where the operation under analysis stands
    v,             \* the descriptor string handed to a parse classmethod
    attr,          \* the DotClassAttribute that DotClassAttribute.parse returned
    method,        \* the DotClassMethod that DotClassMethod.parse returned
    lines,         \* _parse_classes: the lines of classes.dot still to be read
    class_views,   \* the DotClassInfo list built so far
    tree,          \* extract_class_and_function_info: the nodes still to visit
    file_info,     \* extract_class_and_function_info: the RepoFileInfo being built
    matching_files,\* generate_symbols: the files matched under base_directory
    files_classes, \* generate_symbols: the RepoFileInfo list built so far
    package,       \* _repair_ns: the raw package string
    mappings,      \* _repair_ns: the root-relative mapping
    ns,            \* _repair_ns: its outcome
    directory,     \* _repair_namespaces: path and what lies under it
    relationship_views, \* _repair_namespaces: the DotClassRelationship list
    reconciled, \* what the first _repair_namespaces returned
    dot_line, \* _split_relationship_line: the line of classes.dot
    ret, \* _split_relationship_line: what it returned
    dot_files, \* rebuild_class_views: the files pyreverse left under path
    graph_db, \* RebuildSequenceView: the graph repository, a set of (subject, predicate, object_) rows
    entries, \* RebuildSequenceView.run: the main entries still to be processed, current one first
    new_participant, \* the last value _search_new_participant returned
    attempt, \* the attempt number of the current _merge_sequence_view call under @retry
    handled \* the names _merge_participant has handled for the current entry, in order

parserVars == <<v, attr, method>>

classVars == <<lines, class_views>>

symbolVars == <<tree, file_info, matching_files, files_classes>>

nsVars == <<package, mappings, ns>>

repairVars == <<directory, relationship_views, reconciled>>

edgeVars == <<dot_line, ret>>

rebuildVars == <<dot_files>>

sequenceVars == <<graph_db, entries, new_participant, attempt, handled>>

vars == <<pc, parserVars, classVars, symbolVars, nsVars, repairVars, edgeVars, rebuildVars, sequenceVars>>

NoValue == <<"<unset>">>

(***************************************************************************)
(* Python str primitives                                                   *)
(***************************************************************************)

Min(a, b) == IF a < b THEN a ELSE b

Max(a, b) == IF a > b THEN a ELSE b

\* s[a:b]: negative indices count from the end, both ends are clamped
PySlice(s, a, b) ==
    LET n  == Len(s)
        lo == IF a < 0 THEN Max(a + n, 0) ELSE Min(a, n)
        hi == IF b < 0 THEN Max(b + n, 0) ELSE Min(b, n)
    IN  IF lo >= hi THEN <<>> ELSE SubSeq(s, lo + 1, hi)

\* s[a:]
PySliceFrom(s, a) == PySlice(s, a, Len(s))

\* whether sub occurs in s at 0-based offset i
MatchesAt(s, sub, i) ==
    /\ i >= 0
    /\ i + Len(sub) <= Len(s)
    /\ \A k \in 1..Len(sub) : s[i + k] = sub[k]

\* s.find(sub, start)
PyFindFrom(s, sub, start) ==
    LET hits == {i \in start..(Len(s) - Len(sub)) : MatchesAt(s, sub, i)}
    IN  IF hits = {} THEN -1 ELSE CHOOSE i \in hits : \A j \in hits : i <= j

\* s.find(sub)
PyFind(s, sub) == PyFindFrom(s, sub, 0)

\* s.rfind(sub)
PyRFind(s, sub) ==
    LET hits == {i \in 0..(Len(s) - Len(sub)) : MatchesAt(s, sub, i)}
    IN  IF hits = {} THEN -1 ELSE CHOOSE i \in hits : \A j \in hits : i >= j

\* sub in s
PyIn(sub, s) == PyFind(s, sub) >= 0

\* what str.strip() and the regex class \s take for white space
IsSpace(c) == c \in {" ", "\t", "\n"}

IsQuote(c) == c \in {"'", "\""}

RECURSIVE LStrip(_)
LStrip(s) == IF s # <<>> /\ IsSpace(Head(s)) THEN LStrip(Tail(s)) ELSE s

RECURSIVE RStrip(_)
RStrip(s) ==
    IF s # <<>> /\ IsSpace(s[Len(s)]) THEN RStrip(SubSeq(s, 1, Len(s) - 1)) ELSE s

\* s.strip()
PyStrip(s) == RStrip(LStrip(s))

\* s.replace(a, b) for one-character a and b
PyReplaceChar(s, a, b) == [i \in 1..Len(s) |-> IF s[i] = a THEN b ELSE s[i]]

\* the parts of s between the positions P of its separators, from position i
RECURSIVE SplitAt(_, _, _)
SplitAt(s, P, i) ==
    LET ahead == {p \in P : p >= i}
    IN  IF ahead = {} THEN <<SubSeq(s, i, Len(s))>>
        ELSE LET p == CHOOSE q \in ahead : \A r \in ahead : q <= r
             IN  <<SubSeq(s, i, p - 1)>> \o SplitAt(s, P, p + 1)

\* s.split(sep) for a one-character sep: n separators give n + 1 parts
PySplit(s, sep) == SplitAt(s, {i \in 1..Len(s) : s[i] = sep}, 1)

\* the order of the code points of the characters the model uses
Ascii ==
    <<"\t", "\n", " ", "\"", "'", "(", ")", ",", ".", "/",
      "0", "1", "2", "3", "4", "5", "6", "7", "8", "9", ":", "<", "=", ">",
      "A", "B", "C", "D", "E", "F", "G", "H", "I", "J", "K", "L", "M", "N",
      "O", "P", "Q", "R", "S", "T", "U", "V", "W", "X", "Y", "Z",
      "[", "\\", "]", "_",
      "a", "b", "c", "d", "e", "f", "g", "h", "i", "j", "k", "l", "m", "n",
      "o", "p", "q", "r", "s", "t", "u", "v", "w", "x", "y", "z", "{", "|", "}">>

Chars == {Ascii[i] : i \in 1..Len(Ascii)}

Ord(c) == CHOOSE i \in 1..Len(Ascii) : Ascii[i] = c

\* a < b for two str, as list.sort() compares them
RECURSIVE StrLess(_, _)
StrLess(a, b) ==
    IF b = <<>> THEN FALSE
    ELSE IF a = <<>> THEN TRUE
    ELSE IF Head(a) = Head(b) THEN StrLess(Tail(a), Tail(b))
    ELSE Ord(Head(a)) < Ord(Head(b))

\* the members of a set of str in ascending order
RECURSIVE SortedList(_)
SortedList(S) ==
    IF S = {} THEN <<>>
    ELSE LET m == CHOOSE x \in S : \A y \in S \ {x} : StrLess(x, y)
         IN  <<m>> \o SortedList(S \ {m})

Range(seq) == {seq[i] : i \in 1..Len(seq)}

(***************************************************************************)
(* DotClassAttribute                                                       *)
(***************************************************************************)

\* the normalisation loop of parse: a ':' is put before the first '=' that no
\* ':' precedes
RECURSIVE InsertColon(_, _, _)
InsertColon(s, i, meet_colon) ==
    IF i > Len(s) THEN <<>>
    ELSE IF s[i] = ":" THEN <<s[i]>> \o InsertColon(s, i + 1, TRUE)
    ELSE IF s[i] = "=" /\ ~meet_colon THEN <<":", s[i]>> \o InsertColon(s, i + 1, TRUE)
    ELSE <<s[i]>> \o InsertColon(s, i + 1, meet_colon)

\* val as it stands when the loop and the two appends of parse are done
NormalizeDescriptor(s) ==
    LET looped      == InsertColon(s, 1, FALSE)
        meet_colon  == \E i \in 1..Len(s) : s[i] \in {":", "="}
        meet_equals == \E i \in 1..Len(s) : s[i] = "="
        withColon   == IF meet_colon THEN looped ELSE Append(looped, ":")
    IN  IF meet_equals THEN withColon ELSE Append(withColon, "=")

\* re.sub(r"(?<!['\"])\s|(?<=['\"])\s", "", s): a white space character is
\* dropped when the first alternative matches it (no quote before it) or the
\* second does (a quote before it)
RECURSIVE RemoveWhiteSpacesFrom(_, _)
RemoveWhiteSpacesFrom(s, i) ==
    IF i > Len(s) THEN <<>>
    ELSE LET afterQuote == i > 1 /\ IsQuote(s[i - 1])
             alt1 == IsSpace(s[i]) /\ ~afterQuote
             alt2 == IsSpace(s[i]) /\ afterQuote
         IN  (IF alt1 \/ alt2 THEN <<>> ELSE <<s[i]>>) \o RemoveWhiteSpacesFrom(s, i + 1)

remove_white_spaces(s) == RemoveWhiteSpacesFrom(s, 1)

NotQuote(c) == ~IsQuote(c)

\* re.sub(r"['\"]", "", s)
RemoveQuotes(s) == SelectSeq(s, NotQuote)

sLiteral == <<"L", "i", "t", "e", "r", "a", "l">>

sLiteralTag == sLiteral \o <<"[">>

sNone == <<"N", "o", "n", "e">>

sNoneType == sNone \o <<"T", "y", "p", "e">>

\* the names parse_compositions never reports
filters ==
    { <<"s", "t", "r">>, <<"f", "r", "o", "z", "e", "n", "s", "e", "t">>,
      <<"s", "e", "t">>, <<"i", "n", "t">>, <<"f", "l", "o", "a", "t">>,
      <<"c", "o", "m", "p", "l", "e", "x">>, <<"b", "o", "o", "l">>,
      <<"d", "i", "c", "t">>, <<"l", "i", "s", "t">>, <<"U", "n", "i", "o", "n">>,
      <<"D", "i", "c", "t">>, <<"S", "e", "t">>, <<"T", "u", "p", "l", "e">>,
      sNoneType, sNone, <<"A", "n", "y">>,
      <<"O", "p", "t", "i", "o", "n", "a", "l">>,
      <<"I", "t", "e", "r", "a", "t", "o", "r">>, sLiteral,
      <<"L", "i", "s", "t">> }

\* re.sub(r"[\[\],]", "|", s)
BarSeparators(s) ==
    [i \in 1..Len(s) |-> IF s[i] \in {"[", "]", ","} THEN "|" ELSE s[i]]

\* parse_compositions: the set it builds; the order of list(result) is left
\* open here and settled by the validator sort
parse_compositions(types_part) ==
    IF types_part = <<>> THEN {}
    ELSE LET types == PySplit(BarSeparators(types_part), "|")
             clean == {RemoveQuotes(PyStrip(types[i])) : i \in 1..Len(types)}
         IN  {t \in clean : t # <<>> /\ t \notin filters}

\* the field validator of compositions: lst.sort()
sort(lst) == SortedList(lst)

\* a scan that runs to range(bix + len(tag), len(v) + 1)
ScanStopPastEnd(s) == Len(s) + 1

\* the last index the scan of _split_literal visits, plus one
ScanStop(s) == Len(s) - 1

\* the loop of _split_literal from index i with the bracket counter: the index
\* of the ']' closing the literal, Len(s) - 1 when the loop runs out, and -2
\* when s[i] is read outside the string (IndexError)
RECURSIVE ScanLiteral(_, _, _)
ScanLiteral(s, i, counter) ==
    IF i >= ScanStop(s) THEN Len(s) - 1
    ELSE IF i < 0 \/ i >= Len(s) THEN -2
    ELSE IF s[i + 1] = "[" THEN ScanLiteral(s, i + 1, counter + 1)
    ELSE IF s[i + 1] = "]" THEN
        (IF counter - 1 > 0 THEN ScanLiteral(s, i + 1, counter - 1) ELSE i)
    ELSE ScanLiteral(s, i + 1, counter)

\* _split_literal: (pre_l, the literal, post_l), or raised
split_literal(s) ==
    LET bix == PyFind(s, sLiteralTag)
        eix == ScanLiteral(s, bix + Len(sLiteralTag), 1)
    IN  IF eix = -2 THEN [raised |-> TRUE, pre |-> <<>>, literal |-> <<>>, post |-> <<>>]
        ELSE [raised  |-> FALSE,
              pre     |-> RemoveQuotes(PySlice(s, 0, bix)),
              literal |-> PySlice(s, bix, eix + 1),
              post    |-> RemoveQuotes(PySliceFrom(s, eix + 1))]

\* val.find(":")
ColonIndex(val) == PyFind(val, <<":">>)

\* val.find("=") where the code has rfind
EqualsIndexFirst(val) == PyFind(val, <<"=">>)

\* val.rfind("=")
EqualsIndex(val) == PyRFind(val, <<"=">>)

\* default_ with the text None normalised away
NormalizeDefault(d) == IF d = sNone THEN <<>> ELSE d

RaisedAttribute(s) ==
    [raised |-> TRUE, name |-> NoValue, type_ |-> NoValue, default_ |-> NoValue,
     description |-> s, compositions |-> <<>>]

\* DotClassAttribute.parse
ParseAttribute(s) ==
    LET val      == NormalizeDescriptor(s)
        cix      == ColonIndex(val)
        eix      == EqualsIndex(val)
        name     == PyStrip(PySlice(val, 0, cix))
        rawType  == remove_white_spaces(PySlice(val, cix + 1, eix))
        default_ == NormalizeDefault(PyStrip(PySliceFrom(val, eix + 1)))
        type0    == IF rawType = sNoneType THEN <<>> ELSE rawType
        hasLit   == PyIn(sLiteralTag, type0)
        parts    == split_literal(type0)
        type_    == IF hasLit THEN parts.pre \o parts.literal \o parts.post
                    ELSE RemoveQuotes(type0)
        composition_val == IF hasLit THEN parts.pre \o sLiteral \o parts.post
                           ELSE type_
    IN  IF hasLit /\ parts.raised THEN RaisedAttribute(s)
        ELSE [raised |-> FALSE, name |-> name, type_ |-> type_, default_ |-> default_,
              description |-> s, compositions |-> sort(parse_compositions(composition_val))]

(***************************************************************************)
(* DotReturn and DotClassMethod                                            *)
(***************************************************************************)

\* DotReturn.parse
ParseReturn(s) ==
    IF s = <<>> THEN [type_ |-> <<>>, description |-> s, compositions |-> <<>>]
    ELSE LET type_ == remove_white_spaces(s)
         IN  [type_ |-> type_, description |-> s,
              compositions |-> sort(parse_compositions(type_))]

\* DotClassMethod._parse_name
parse_name(s) ==
    IF PyIn(<<">">>, s)
    THEN LET bix == PyFind(s, <<">">>) + 1
             eix == PyRFind(s, <<"<", "/">>)
         IN  PyStrip(PySlice(s, bix, eix))
    ELSE PyStrip(s)

\* the splitting loop of _parse_args from 0-based index i: the parts cut at
\* the commas met while the bracket counter is 0, then the rest
RECURSIVE ArgParts(_, _, _, _)
ArgParts(s, i, bix, counter) ==
    IF i >= Len(s) THEN <<PyStrip(PySliceFrom(s, bix))>>
    ELSE IF s[i + 1] = "[" THEN ArgParts(s, i + 1, bix, counter + 1)
    ELSE IF s[i + 1] = "]" THEN ArgParts(s, i + 1, bix, counter - 1)
    ELSE IF s[i + 1] = "," /\ counter = 0
         THEN <<PyStrip(PySlice(s, bix, i))>> \o ArgParts(s, i + 1, i + 1, counter)
    ELSE ArgParts(s, i + 1, bix, counter)

RECURSIVE ParseEach(_)
ParseEach(parts) ==
    IF parts = <<>> THEN <<>>
    ELSE (IF Head(parts) # <<>> THEN <<ParseAttribute(Head(parts))>> ELSE <<>>)
             \o ParseEach(Tail(parts))

\* DotClassMethod._parse_args
parse_args(s) == IF s = <<>> THEN <<>> ELSE ParseEach(ArgParts(s, 0, 0, 0))

\* the set DotClassMethod.parse collects from the parameters and the return
AggregationSet(args, return_args) ==
    UNION {Range(args[i].compositions) : i \in 1..Len(args)}
        \cup Range(return_args.compositions)

\* the lists list(S) may give: a set iterates in an order of its own
ListsOfSet(S) ==
    {l \in [1..Cardinality(S) -> S] : \A i, j \in 1..Cardinality(S) : l[i] = l[j] => i = j}

\* DotClassMethod.parse, the aggregations in the order list(aggregations) gave
ParseMethod(s, aggregations) ==
    LET bix  == PyFind(s, <<"(">>)
        eix  == PyRFind(s, <<")">>)
        rix0 == PyRFind(s, <<":">>)
        rix  == IF rix0 < 0 \/ rix0 < eix THEN eix ELSE rix0
    IN  [name        |-> parse_name(PyStrip(PySlice(s, 0, bix))),
         args        |-> parse_args(PyStrip(PySlice(s, bix + 1, eix))),
         return_args |-> ParseReturn(PyStrip(PySliceFrom(s, rix + 1))),
         description |-> s,
         aggregations |-> aggregations]

\* the aggregations DotClassMethod.parse can return for s
MethodAggregationLists(s) ==
    LET m == ParseMethod(s, <<>>) IN ListsOfSet(AggregationSet(m.args, m.return_args))

(***************************************************************************)
(* RepoParser._parse_classes                                               *)
(***************************************************************************)

\* s.replace('"', "")
RemoveDoubleQuotes(s) == SelectSeq(s, LAMBDA c : c # "\"")

\* re.sub(r"<br[^>]*>", "\n", s) from 0-based index i: each <br up to the
\* next '>' becomes a line feed
RECURSIVE BreaksToNewlines(_, _)
BreaksToNewlines(s, i) ==
    LET open  == PyFindFrom(s, <<"<", "b", "r">>, i)
        close == PyFindFrom(s, <<">">>, open + 3)
    IN  IF open < 0 \/ close < 0 THEN PySliceFrom(s, i)
        ELSE PySlice(s, i, open) \o <<"\n">> \o BreaksToNewlines(s, close + 1)

sPartSplitor == <<"\"", " ", "[">>

sBeginFlag == <<"l", "a", "b", "e", "l", "=", "<", "{">>

sEndFlag == <<"}", ">">>

NoClassLine == [package_name |-> <<>>, info |-> <<>>]

\* RepoParser._split_class_line; (None, None) is the empty package name, which
\* the caller takes for the same
split_class_line(line) ==
    IF ~PyIn(sPartSplitor, line) THEN NoClassLine
    ELSE LET ix   == PyFind(line, sPartSplitor)
             left == PySliceFrom(line, ix)
             bix  == PyFind(left, sBeginFlag)
             eix  == PyRFind(left, sEndFlag)
         IN  IF ~PyIn(sBeginFlag, left) \/ ~PyIn(sEndFlag, left) THEN NoClassLine
             ELSE [package_name |-> RemoveDoubleQuotes(PySlice(line, 0, ix)),
                   info |-> BreaksToNewlines(PySlice(left, bix + Len(sBeginFlag), eix), 0)]

\* s cut at every '|', escaped or not
SplitEveryBar(s) == PySplit(s, "|")

\* re.split(r"(?<!\\)\|", s): s is cut at every '|' no backslash precedes
SplitUnescapedBar(s) ==
    SplitAt(s, {i \in 1..Len(s) : s[i] = "|" /\ ~(i > 1 /\ s[i - 1] = "\\")}, 1)

\* DotClassInfo(name=class_name) with its package set
NewClassInfo(name, package_name) ==
    [name |-> name, package |-> package_name, attributes |-> <<>>, methods |-> <<>>,
     compositions |-> <<>>, aggregations |-> <<>>]

\* d[key] = value for a dict kept as a function
DictSet(d, key, value) ==
    [k \in DOMAIN d \cup {key} |-> IF k = key THEN value ELSE d[k]]

\* for i in attr.compositions: append i unless class_info.compositions has it
RECURSIVE AddCompositions(_, _)
AddCompositions(compositions, new) ==
    IF new = <<>> THEN compositions
    ELSE AddCompositions(
             IF Head(new) \in Range(compositions) THEN compositions
             ELSE Append(compositions, Head(new)),
             Tail(new))

\* the loop over method.aggregations without its test against the compositions
RECURSIVE AddAggregationsUnchecked(_, _, _)
AddAggregationsUnchecked(compositions, aggregations, new) ==
    IF new = <<>> THEN aggregations
    ELSE AddAggregationsUnchecked(
             compositions,
             IF Head(new) \in Range(aggregations) THEN aggregations
             ELSE Append(aggregations, Head(new)),
             Tail(new))

\* for i in method.aggregations: append i unless it is a composition or
\* already an aggregation of the class
RECURSIVE AddAggregations(_, _, _)
AddAggregations(compositions, aggregations, new) ==
    IF new = <<>> THEN aggregations
    ELSE AddAggregations(
             compositions,
             IF Head(new) \in Range(compositions) \/ Head(new) \in Range(aggregations)
             THEN aggregations
             ELSE Append(aggregations, Head(new)),
             Tail(new))

\* the loop over members.split("\n")
RECURSIVE IngestMembers(_, _)
IngestMembers(class_info, members) ==
    IF members = <<>> THEN class_info
    ELSE IF Head(members) = <<>> THEN IngestMembers(class_info, Tail(members))
    ELSE LET a == ParseAttribute(Head(members))
         IN  IngestMembers(
                 [class_info EXCEPT
                     !.attributes = DictSet(@, a.name, a),
                     !.compositions = AddCompositions(@, a.compositions)],
                 Tail(members))

\* the loop over functions.split("\n"): every class_info it can end with, one
\* for each order the methods' aggregations can come in
RECURSIVE IngestFunctions(_, _)
IngestFunctions(class_info, functions) ==
    IF functions = <<>> THEN {class_info}
    ELSE IF Head(functions) = <<>> THEN IngestFunctions(class_info, Tail(functions))
    ELSE UNION {
             LET m == ParseMethod(Head(functions), order)
             IN  IngestFunctions(
                     [class_info EXCEPT
                         !.methods = DictSet(@, m.name, m),
                         !.aggregations =
                             AddAggregations(class_info.compositions, @, m.aggregations)],
                     Tail(functions))
             : order \in MethodAggregationLists(Head(functions)) }

\* the DotClassInfo values one class line can give, from the three sections
\* of its label
ClassInfos(package_name, sections) ==
    IngestFunctions(
        IngestMembers(NewClassInfo(sections[1], package_name), PySplit(sections[2], "\n")),
        PySplit(sections[3], "\n"))

(***************************************************************************)
(* The symbol extractor: syntax tree nodes                                 *)
(*                                                                         *)
(* An expression node is [kind, id, sub]: id is the value of a Constant,   *)
(* the id of a Name and the attr of an Attribute; sub holds the child      *)
(* expressions (the value of an Attribute, the func of a Call, the left    *)
(* and the comparators of a Compare, the values of a BoolOp, the operands  *)
(* of a BinOp).  A statement node is [kind, name, value, targets, names,   *)
(* module, body, lineno, end_lineno].                                      *)
(***************************************************************************)

\* None, a value apart from every str
PyNone == <<"<None>">>

\* the int 1, a value apart from every str
PyIntOne == <<"<int 1>">>

Expr(kind, id, sub) == [kind |-> kind, id |-> id, sub |-> sub]

\* hasattr(x, "id")
HasId(x) == x.kind = "Name"

\* hasattr(n, "left")
HasLeft(n) == n.kind \in {"Compare", "BinOp"}

\* any_to_str(node) for the two expression classes _parse_expr knows
sAstConstant == <<"a", "s", "t", ".", "C", "o", "n", "s", "t", "a", "n", "t">>

sAstCall == <<"a", "s", "t", ".", "C", "a", "l", "l">>

\* RepoParser._parse_variable: the resolved value, None when the node is of
\* no known class (the NotImplementedError is caught and logged)
RECURSIVE parse_variable(_)
parse_variable(node) ==
    CASE node.kind = "Constant"  -> node.id
      [] node.kind = "Name"      -> node.id
      [] node.kind = "Attribute" ->
             IF HasId(node.sub[1]) THEN node.sub[1].id \o <<".">> \o node.id
             ELSE node.id
      [] node.kind = "Call"      -> parse_variable(node.sub[1])
      [] node.kind = "Tuple"     -> <<>>
      [] OTHER                   -> PyNone

\* whether a value is a str
IsPyStr(x) == x \notin {PyNone, PyIntOne}

\* if v: for a value _parse_variable returned
Truthy(x) == x # PyNone /\ x # <<>>

\* an outcome of a step that may raise
Ok(value) == [raised |-> FALSE, value |-> value]

Raised == [raised |-> TRUE, value |-> <<>>]

\* RepoParser._parse_expr: NotImplementedError unless the value of the
\* expression statement is a Constant or a Call
parse_expr(node) ==
    CASE node.value.kind = "Constant" ->
             Ok(<<sAstConstant, parse_variable(node.value)>>)
      [] node.value.kind = "Call" ->
             Ok(<<sAstCall, parse_variable(node.value.sub[1])>>)
      [] OTHER -> Raised

\* RepoParser._parse_name
parse_alias(n) ==
    IF n.asname # <<>> THEN n.name \o <<" ", "a", "s", " ">> \o n.asname ELSE n.name

\* RepoParser._parse_if_compare
parse_if_compare(n) == IF HasLeft(n) THEN parse_variable(n.sub[1]) ELSE <<>>

\* the characters of a str, each a token: what list.extend(a str) appends
CharTokens(x) == [i \in 1..Len(x) |-> <<x[i]>>]

\* the BoolOp loop of _parse_if: tokens.extend(...) of each value in turn; a
\* TypeError (extend of a value that is not iterable) ends it with the tokens
\* gathered so far
RECURSIVE ExtendWithCompares(_, _)
ExtendWithCompares(tokens, values) ==
    IF values = <<>> THEN tokens
    ELSE LET x == parse_if_compare(Head(values))
         IN  IF ~IsPyStr(x) THEN tokens
             ELSE ExtendWithCompares(tokens \o CharTokens(x), Tail(values))

\* the truthy resolved values of a sequence of nodes, in order
RECURSIVE ResolvedOperands(_)
ResolvedOperands(nodes) ==
    IF nodes = <<>> THEN <<>>
    ELSE LET x == parse_variable(Head(nodes))
         IN  (IF Truthy(x) THEN <<x>> ELSE <<>>) \o ResolvedOperands(Tail(nodes))

\* RepoParser._parse_if; a test that is neither BoolOp nor Compare has no
\* comparators: the AttributeError is caught and the empty list returned
parse_if(n) ==
    CASE n.value.kind = "BoolOp"  -> ExtendWithCompares(<<>>, n.value.sub)
      [] n.value.kind = "Compare" -> ResolvedOperands(n.value.sub)
      [] OTHER                    -> <<>>

RECURSIVE MapParseVariable(_)
MapParseVariable(nodes) ==
    IF nodes = <<>> THEN <<>>
    ELSE <<parse_variable(Head(nodes))>> \o MapParseVariable(Tail(nodes))

\* RepoParser._parse_assign
parse_assign(node) == MapParseVariable(node.targets)

RECURSIVE MapParseAlias(_)
MapParseAlias(names) ==
    IF names = <<>> THEN <<>>
    ELSE <<parse_alias(Head(names))>> \o MapParseAlias(Tail(names))

CodeBlockInfo(node, tokens, properties) ==
    [lineno |-> node.lineno, end_lineno |-> node.end_lineno, type_name |-> node.kind,
     tokens |-> tokens, properties |-> properties]

\* what node_to_str returns when it returns None
NoBlock == [lineno |-> 0, end_lineno |-> 0, type_name |-> "None",
            tokens |-> <<>>, properties |-> <<>>]

\* RepoParser.node_to_str: a CodeBlockInfo, None, or NotImplementedError
node_to_str(node) ==
    CASE node.kind = "Try" -> Ok(NoBlock)
      [] node.kind = "Expr" ->
             LET tokens == parse_expr(node)
             IN  IF tokens.raised THEN Raised
                 ELSE Ok(CodeBlockInfo(node, tokens.value, <<>>))
      [] node.kind = "Import" -> Ok(CodeBlockInfo(node, MapParseAlias(node.names), <<>>))
      [] node.kind = "Assign" -> Ok(CodeBlockInfo(node, parse_assign(node), <<>>))
      [] node.kind \in {"ClassDef", "FunctionDef", "AsyncFunctionDef"} ->
             Ok(CodeBlockInfo(node, <<node.name>>, <<>>))
      [] node.kind = "ImportFrom" ->
             Ok(CodeBlockInfo(node, <<>>,
                    [module |-> node.module, names |-> MapParseAlias(node.names)]))
      [] node.kind = "If" -> Ok(CodeBlockInfo(node, parse_if(node), <<>>))
      [] node.kind = "AnnAssign" ->
             LET val == parse_variable(node.targets[1])
             IN  IF IsPyStr(val) THEN Ok(CodeBlockInfo(node, <<val>>, <<>>))
                 ELSE Raised
      [] OTHER -> Ok(NoBlock)

\* is_func
is_func(node) == node.kind \in {"FunctionDef", "AsyncFunctionDef"}

RECURSIVE MethodNames(_)
MethodNames(body) ==
    IF body = <<>> THEN <<>>
    ELSE (IF is_func(Head(body)) THEN <<Head(body).name>> ELSE <<>>)
             \o MethodNames(Tail(body))

RECURSIVE NameTargets(_)
NameTargets(targets) ==
    IF targets = <<>> THEN <<>>
    ELSE (IF Head(targets).kind = "Name" THEN <<Head(targets).id>> ELSE <<>>)
             \o NameTargets(Tail(targets))

\* RepoFileInfo(file=...)
NewFileInfo(file) ==
    [file |-> file, classes |-> <<>>, functions |-> <<>>, globals |-> <<>>,
     page_info |-> <<>>]

\* a turn of the loop that puts the block at the head of page_info
ExtractNodePrepending(info, node) ==
    LET block == node_to_str(node)
        paged == IF block.value # NoBlock
                 THEN [info EXCEPT !.page_info = <<block.value>> \o @]
                 ELSE info
    IN  IF block.raised THEN Raised
        ELSE Ok(CASE node.kind = "ClassDef" ->
                     [paged EXCEPT !.classes = Append(@,
                         [name |-> node.name, methods |-> MethodNames(node.body)])]
                  [] is_func(node) ->
                     [paged EXCEPT !.functions = Append(@, node.name)]
                  [] node.kind \in {"Assign", "AnnAssign"} ->
                     [paged EXCEPT !.globals = @ \o NameTargets(node.targets)]
                  [] OTHER -> paged)

\* one turn of the loop of extract_class_and_function_info
ExtractNodeInto(info, node) ==
    LET block == node_to_str(node)
        paged == IF block.value # NoBlock
                 THEN [info EXCEPT !.page_info = Append(@, block.value)]
                 ELSE info
    IN  IF block.raised THEN Raised
        ELSE Ok(CASE node.kind = "ClassDef" ->
                     [paged EXCEPT !.classes = Append(@,
                         [name |-> node.name, methods |-> MethodNames(node.body)])]
                  [] is_func(node) ->
                     [paged EXCEPT !.functions = Append(@, node.name)]
                  [] node.kind \in {"Assign", "AnnAssign"} ->
                     [paged EXCEPT !.globals = @ \o NameTargets(node.targets)]
                  [] OTHER -> paged)

\* extract_class_and_function_info over a whole tree
RECURSIVE ExtractAll(_, _)
ExtractAll(info, nodes) ==
    IF nodes = <<>> THEN Ok(info)
    ELSE LET step == ExtractNodeInto(info, Head(nodes))
         IN  IF step.raised THEN Raised ELSE ExtractAll(step.value, Tail(nodes))

\* RepoParser._parse_file: the body of the parsed module, and the
\* default_return [] of handle_exception when reading or parsing raises
parse_file(file) == IF file.parsable THEN file.body ELSE <<>>

\* one turn of the loop of generate_symbols
SymbolsOfFile(file) == ExtractAll(NewFileInfo(file.path), parse_file(file))

\* generate_symbols over a whole list of files
RECURSIVE GenerateSymbols(_)
GenerateSymbols(files) ==
    IF files = <<>> THEN Ok(<<>>)
    ELSE LET first == SymbolsOfFile(Head(files))
             rest  == GenerateSymbols(Tail(files))
         IN  IF first.raised \/ rest.raised THEN Raised
             ELSE Ok(<<first.value>> \o rest.value)

\* the state of the parts of the program a run does not touch
ParsersIdle == v = <<>> /\ attr = NoValue /\ method = NoValue

ClassesIdle == lines = <<>> /\ class_views = <<>>

SymbolsIdle ==
    /\ tree = <<>>
    /\ file_info = NoValue
    /\ matching_files = <<>>
    /\ files_classes = <<>>

NsIdle == package = <<>> /\ mappings = <<>> /\ ns = NoValue

RepairIdle == directory = NoValue /\ relationship_views = <<>> /\ reconciled = NoValue

SequenceIdle == graph_db = {} /\ entries = <<>> /\ new_participant = NoValue /\ attempt = 1 /\ handled = <<>>

RebuildIdle == dot_files = {}

EdgeIdle == dot_line = <<>> /\ ret = NoValue

(***************************************************************************)
(* Inputs of the descriptor parsers                                        *)
(***************************************************************************)

\* how many fragments a generated attribute descriptor is made of, at most
MaxFrags == 3

\* every concatenation of at most n fragments of F
RECURSIVE FragStrings(_, _)
FragStrings(F, n) ==
    IF n = 0 THEN {<<>>}
    ELSE LET shorter == FragStrings(F, n - 1)
         IN  shorter \cup {s \o f : s \in shorter, f \in F}

sFoo == <<"F", "o", "o">>

sBar == <<"B", "a", "r">>

AttrFrags ==
    { <<"x">>, <<":">>, <<"=">>, <<" ">>, <<"[">>, <<"]">>, <<",">>, <<"'">>,
      <<"\"">>, <<"|">>, sLiteralTag, sFoo, sNone, sNoneType, <<"i", "n", "t">> }

\* "x: int = 1"
sXIntOne == <<"x", ":", " ", "i", "n", "t", " ", "=", " ", "1">>

\* "items: List[Foo] = None"
sItemsListFoo ==
    <<"i", "t", "e", "m", "s", ":", " ", "L", "i", "s", "t", "[">> \o sFoo
        \o <<"]", " ", "=", " ">> \o sNone

\* "mode: Literal['a','b']"
sModeLiteral ==
    <<"m", "o", "d", "e", ":", " ">> \o sLiteralTag
        \o <<"'", "a", "'", ",", "'", "b", "'", "]">>

\* "x: Union[Literal['a'],Literal['b']]"
sTwoLiterals ==
    <<"x", ":", " ", "U", "n", "i", "o", "n", "[">> \o sLiteralTag
        \o <<"'", "a", "'", "]", ",">> \o sLiteralTag \o <<"'", "b", "'", "]", "]">>

\* "m: Optional[Literal['a', "b c"]] = None"
sNestedLiteral ==
    <<"m", ":", " ", "O", "p", "t", "i", "o", "n", "a", "l", "[">> \o sLiteralTag
        \o <<"'", "a", "'", ",", " ", "\"", "b", " ", "c", "\"", "]", "]", " ", "=", " ">>
        \o sNone

\* "u: Foo|Bar"
sBarUnion == <<"u", ":", " ">> \o sFoo \o <<"|">> \o sBar

\* "d: Dict[str, 'Foo'] = {}"
sDictQuoted ==
    <<"d", ":", " ", "D", "i", "c", "t", "[", "s", "t", "r", ",", " ", "'">> \o sFoo
        \o <<"'", "]", " ", "=", " ", "{", "}">>

\* "n: NoneType"
sNoneTyped == <<"n", ":", " ">> \o sNoneType

\* "q: 'NoneType' = 'None'"
sNoneQuoted ==
    <<"q", ":", " ", "'">> \o sNoneType \o <<"'", " ", "=", " ", "'">> \o sNone \o <<"'">>

AttrExamples ==
    { sXIntOne, sItemsListFoo, sModeLiteral, sTwoLiterals, sNestedLiteral,
      sBarUnion, sDictQuoted, sNoneTyped, sNoneQuoted }

AttrInputs == FragStrings(AttrFrags, MaxFrags) \cup AttrExamples

(***************************************************************************)
(* DotClassAttribute.parse applied to one descriptor                       *)
(***************************************************************************)

InitAttr ==
    /\ pc = "start"
    /\ SequenceIdle
    /\ RebuildIdle
    /\ EdgeIdle
    /\ v \in AttrInputs
    /\ attr = NoValue
    /\ method = NoValue
    /\ lines = <<>>
    /\ class_views = <<>>
    /\ SymbolsIdle
    /\ NsIdle
    /\ RepairIdle

DoParseAttribute ==
    /\ pc = "start"
    /\ attr' = ParseAttribute(v)
    /\ pc' = "done"
    /\ UNCHANGED <<v, method, classVars, symbolVars, nsVars, repairVars, edgeVars, rebuildVars, sequenceVars>>

NextAttr == DoParseAttribute

SpecAttr == InitAttr /\ [][NextAttr]_vars

(***************************************************************************)
(* Claims about DotClassAttribute.parse                                    *)
(***************************************************************************)

IsStr(s) == s \in Seq(Chars)

\* 1-based position of the first c in s, 0 when there is none
FirstIndexOf(s, c) ==
    IF \E i \in 1..Len(s) : s[i] = c
    THEN CHOOSE i \in 1..Len(s) : s[i] = c /\ \A j \in 1..(i - 1) : s[j] # c
    ELSE 0

\* 1-based position of the last c in s, 0 when there is none
LastIndexOf(s, c) ==
    IF \E i \in 1..Len(s) : s[i] = c
    THEN CHOOSE i \in 1..Len(s) : s[i] = c /\ \A j \in (i + 1)..Len(s) : s[j] # c
    ELSE 0

\* C5: DotClassAttribute.parse is total: for every descriptor it returns, without
\* raising, a descriptor whose name, type_ and default_ are strings.
C5_ParseIsTotal ==
    pc = "done" =>
        /\ ~attr.raised
        /\ IsStr(attr.name) /\ IsStr(attr.type_) /\ IsStr(attr.default_)

\* a descriptor with an unterminated Literal[ and no ':' has been parsed
C5_Witness ==
    /\ pc = "done"
    /\ PyIn(sLiteralTag, v)
    /\ FirstIndexOf(v, "]") = 0
    /\ FirstIndexOf(v, ":") = 0
    /\ ~attr.raised

\* the descriptor as the claim normalises it: a ':' right before the first '='
\* that no ':' precedes, a ':' at the end when there is neither, and an '=' at
\* the end when there is none
ClaimedNormalForm(s) ==
    LET fe == FirstIndexOf(s, "=")
        fc == FirstIndexOf(s, ":")
        colonFirst == fc > 0 /\ (fe = 0 \/ fc < fe)
        withColon  == IF colonFirst THEN s
                      ELSE IF fe > 0
                           THEN SubSeq(s, 1, fe - 1) \o <<":">> \o SubSeq(s, fe, Len(s))
                           ELSE s \o <<":">>
    IN  IF fe > 0 THEN withColon ELSE withColon \o <<"=">>

NotSpace(c) == ~IsSpace(c)

RECURSIVE TokensFrom(_, _, _, _)
TokensFrom(s, seps, i, cur) ==
    IF i > Len(s) THEN {cur}
    ELSE IF s[i] \in seps THEN {cur} \cup TokensFrom(s, seps, i + 1, <<>>)
    ELSE TokensFrom(s, seps, i + 1, Append(cur, s[i]))

\* the names the claims expect of a type expression: its quote-stripped
\* non-empty tokens between '[', ']' and ',', the builtin names aside
ClaimedNames(expr) ==
    {RemoveQuotes(t) : t \in TokensFrom(expr, {"[", "]", ","}, 1, <<>>)}
        \ ({<<>>} \cup filters)

StrictlyAscending(lst) ==
    \A i \in 1..Len(lst) : \A j \in (i + 1)..Len(lst) : StrLess(lst[i], lst[j])

\* the type expression with its first Literal[...] cut down to Literal
LiteralExcised(type_) ==
    IF PyIn(sLiteralTag, type_)
    THEN LET p == split_literal(type_) IN p.pre \o sLiteral \o p.post
    ELSE type_

\* C10: the compositions of a parsed attribute are the quote-stripped non-empty
\* tokens of its type expression between '[', ']' and ',', minus the builtin
\* names, without duplicates and in ascending order; "items: List[Foo] = None"
\* gives compositions [Foo] and an empty default.
C10_CompositionsAreBracketTokens ==
    pc = "done" =>
        /\ Range(attr.compositions) = ClaimedNames(LiteralExcised(attr.type_))
        /\ StrictlyAscending(attr.compositions)
        /\ (v = sItemsListFoo => attr.compositions = <<sFoo>> /\ attr.default_ = <<>>)

\* 0-based index of the ']' that closes a bracket opened before index i, at
\* the given depth; -1 when the brackets never close
RECURSIVE ClosingBracket(_, _, _)
ClosingBracket(s, i, depth) ==
    IF i >= Len(s) THEN -1
    ELSE IF s[i + 1] = "[" THEN ClosingBracket(s, i + 1, depth + 1)
    ELSE IF s[i + 1] = "]" THEN
        (IF depth = 1 THEN i ELSE ClosingBracket(s, i + 1, depth - 1))
    ELSE ClosingBracket(s, i + 1, depth)

\* whether every Literal[ of the type expression is closed
RECURSIVE LiteralsClosed(_)
LiteralsClosed(t) ==
    LET bix   == PyFind(t, sLiteralTag)
        close == ClosingBracket(t, bix + Len(sLiteralTag), 1)
    IN  bix < 0 \/ (close >= 0 /\ LiteralsClosed(PySliceFrom(t, close + 1)))

\* the type expression with the payload of every Literal[...] taken out
RECURSIVE OutsideLiterals(_)
OutsideLiterals(t) ==
    LET bix   == PyFind(t, sLiteralTag)
        close == ClosingBracket(t, bix + Len(sLiteralTag), 1)
    IN  IF bix < 0 \/ close < 0 THEN t
        ELSE PySlice(t, 0, bix) \o sLiteral \o OutsideLiterals(PySliceFrom(t, close + 1))

\* C7: for a type expression with one or more Literal[...] constructs, the
\* compositions are exactly the non-builtin names outside the Literal payloads
\* (no value from inside a payload), and type_ keeps the Literal form;
\* "mode: Literal['a','b']" has no compositions.
C7_LiteralPayloadsAreNotCompositions ==
    (pc = "done" /\ PyIn(sLiteralTag, attr.type_) /\ LiteralsClosed(attr.type_)) =>
        /\ Range(attr.compositions) = ClaimedNames(OutsideLiterals(attr.type_))
        /\ (v = sModeLiteral =>
                /\ attr.compositions = <<>>
                /\ attr.type_ = PySliceFrom(sModeLiteral, 6))

\* whether every quote of s from index i on is closed by the same character;
\* open is the quote that is open, "" when none is
RECURSIVE QuotesClosed(_, _, _)
QuotesClosed(s, i, open) ==
    IF i > Len(s) THEN open = ""
    ELSE IF open = "" THEN QuotesClosed(s, i + 1, IF IsQuote(s[i]) THEN s[i] ELSE "")
    ELSE QuotesClosed(s, i + 1, IF s[i] = open THEN "" ELSE open)

\* the white space of s from index i on that lies inside a quoted segment
RECURSIVE QuotedSpaces(_, _, _)
QuotedSpaces(s, i, open) ==
    IF i > Len(s) THEN <<>>
    ELSE IF open = "" THEN QuotedSpaces(s, i + 1, IF IsQuote(s[i]) THEN s[i] ELSE "")
    ELSE (IF IsSpace(s[i]) THEN <<s[i]>> ELSE <<>>)
             \o QuotedSpaces(s, i + 1, IF s[i] = open THEN "" ELSE open)

\* C19: of the white space of a type expression, parse removes what lies
\* outside quoted segments and keeps what lies inside one: the white space
\* of the stored type_ is that of the quoted segments of the type expression.
C19_QuotedWhiteSpaceIsKept ==
    (pc = "done" /\ ~attr.raised) =>
        LET val  == NormalizeDescriptor(v)
            text == PySlice(val, ColonIndex(val) + 1, EqualsIndex(val))
        IN  QuotesClosed(text, 1, "")
                => SelectSeq(attr.type_, IsSpace) = QuotedSpaces(text, 1, "")

(***************************************************************************)
(* DotClassMethod.parse applied to one descriptor                          *)
(***************************************************************************)

\* how many fragments a generated method descriptor is made of, at most
MaxMethodFrags == 4

MethodFrags ==
    { <<"f", "(">>, <<")">>, <<":">>, <<",">>, <<" ">>, <<"[">>, <<"]">>,
      <<"a", ":">> \o sFoo, <<"b", ":">> \o sBar, sFoo }

\* "f(a: int, b: List[int]) : Dict[str, Foo]"
sMethodExample ==
    <<"f", "(", "a", ":", " ", "i", "n", "t", ",", " ", "b", ":", " ",
      "L", "i", "s", "t", "[", "i", "n", "t", "]", ")", " ", ":", " ",
      "D", "i", "c", "t", "[", "s", "t", "r", ",", " ">> \o sFoo \o <<"]">>

\* "g(a: Foo, b: Dict[str, Bar]) : Baz"
sMethodThree ==
    <<"g", "(", "a", ":", " ">> \o sFoo
        \o <<",", " ", "b", ":", " ", "D", "i", "c", "t", "[", "s", "t", "r", ",", " ">>
        \o sBar \o <<"]", ")", " ", ":", " ", "B", "a", "z">>

MethodInputs ==
    FragStrings(MethodFrags, MaxMethodFrags) \cup {sMethodExample, sMethodThree}

InitMethod ==
    /\ pc = "start"
    /\ SequenceIdle
    /\ RebuildIdle
    /\ EdgeIdle
    /\ v \in MethodInputs
    /\ attr = NoValue
    /\ method = NoValue
    /\ lines = <<>>
    /\ class_views = <<>>
    /\ SymbolsIdle
    /\ NsIdle
    /\ RepairIdle

DoParseMethod ==
    /\ pc = "start"
    /\ \E aggregations \in MethodAggregationLists(v) :
           method' = ParseMethod(v, aggregations)
    /\ pc' = "done"
    /\ UNCHANGED <<v, attr, classVars, symbolVars, nsVars, repairVars, edgeVars, rebuildVars, sequenceVars>>

NextMethod == DoParseMethod

SpecMethod == InitMethod /\ [][NextMethod]_vars

\* C6: the aggregations of a parsed method are exactly the compositions of its
\* parameters and of its return descriptor, without duplicates and in ascending
\* order; "f(a: int, b: List[int]) : Dict[str, Foo]" has 2 parameters, return
\* compositions [Foo] and aggregations [Foo].
C6_AggregationsSortedUnion ==
    pc = "done" =>
        /\ Range(method.aggregations) =
               UNION {Range(method.args[i].compositions) : i \in 1..Len(method.args)}
                   \cup Range(method.return_args.compositions)
        /\ StrictlyAscending(method.aggregations)
        /\ (v = sMethodExample =>
                /\ Len(method.args) = 2
                /\ method.return_args.compositions = <<sFoo>>
                /\ method.aggregations = <<sFoo>>)

(***************************************************************************)
(* RepoParser._parse_classes run over the lines of one classes.dot         *)
(***************************************************************************)

\* how many attribute lines, and how many method lines, a generated class
\* label has at most
MaxMembers == 2

\* every sequence of at most n members of S
RECURSIVE SeqsUpTo(_, _)
SeqsUpTo(S, n) ==
    IF n = 0 THEN {<<>>}
    ELSE LET shorter == SeqsUpTo(S, n - 1)
         IN  shorter \cup {Append(q, x) : q \in shorter, x \in S}

\* <br ALIGN="LEFT"/>
sBr ==
    <<"<", "b", "r", " ", "A", "L", "I", "G", "N", "=", "\"", "L", "E", "F", "T",
      "\"", "/", ">">>

\* the items of a label section, each followed by its line break markup
RECURSIVE JoinBr(_)
JoinBr(items) == IF items = <<>> THEN <<>> ELSE Head(items) \o sBr \o JoinBr(Tail(items))

\* , shape="record"];
sLineEnd ==
    <<",", " ", "s", "h", "a", "p", "e", "=", "\"", "r", "e", "c", "o", "r", "d",
      "\"", "]", ";">>

\* "<package>" [label=<{<name>|<members>|<functions>}>, shape="record"];
ClassLine(package_name, name, members, functions) ==
    <<"\"">> \o package_name \o sPartSplitor \o sBeginFlag \o name \o <<"|">>
        \o JoinBr(members) \o <<"|">> \o JoinBr(functions) \o sEndFlag \o sLineEnd

sBaz == <<"B", "a", "z">>

AttrLines ==
    { <<"a", " ", ":", " ">> \o sFoo,
      <<"b", " ", ":", " ", "L", "i", "s", "t", "[">> \o sBar \o <<"]">>,
      <<"c", " ", ":", " ", "i", "n", "t">> }

MethodLines ==
    { <<"f", "(", "x", ":", " ">> \o sFoo \o <<")">>,
      <<"g", "(", ")", " ", ":", " ">> \o sBar,
      <<"h", "(", "a", ":", " ">> \o sBaz \o <<",", " ", "b", ":", " ">> \o sFoo
          \o <<")">> }

sPkgC == <<"p", ".", "m", ".", "C">>

sPkgD == <<"p", ".", "m", ".", "D">>

GeneratedClassLines ==
    {ClassLine(sPkgC, <<"C">>, ms, fs) :
        ms \in SeqsUpTo(AttrLines, MaxMembers), fs \in SeqsUpTo(MethodLines, MaxMembers)}

\* digraph "classes" {
sDigraphLine ==
    <<"d", "i", "g", "r", "a", "p", "h", " ", "\"", "c", "l", "a", "s", "s", "e", "s",
      "\"", " ", "{">>

\* "p.m.D" -> "p.m.C" [arrowhead="empty", arrowtail="none"];
sEdgeLine ==
    <<"\"">> \o sPkgD \o <<"\"", " ", "-", ">", " ", "\"">> \o sPkgC
        \o <<"\"", " ", "[", "a", "r", "r", "o", "w", "h", "e", "a", "d", "=", "\"",
             "e", "m", "p", "t", "y", "\"", ",", " ", "a", "r", "r", "o", "w", "t",
             "a", "i", "l", "=", "\"", "n", "o", "n", "e", "\"", "]", ";">>

\* a class line of its own: "p.m.D" [label=<{D|c : int...|f(x: Foo)...}>, ...
sOtherClassLine ==
    ClassLine(sPkgD, <<"D">>,
              <<<<"c", " ", ":", " ", "i", "n", "t">>>>,
              <<<<"f", "(", "x", ":", " ">> \o sFoo \o <<")">>>>)

sEscapedBar == <<"\\", "|">>

\* attribute lines whose default holds an escaped bar: d : str = "x\|y" and
\* e = '\|'
EscapedAttrLines ==
    { <<"d", " ", ":", " ", "s", "t", "r", " ", "=", " ", "\"", "x">> \o sEscapedBar
          \o <<"y", "\"">>,
      <<"e", " ", "=", " ", "'">> \o sEscapedBar \o <<"'">> }

\* class lines with at least one such attribute line
EscapedClassLines ==
    {ClassLine(sPkgC, <<"C">>, ms, fs) :
        ms \in {m \in SeqsUpTo(AttrLines \cup EscapedAttrLines, MaxMembers) :
                   \E i \in DOMAIN m : m[i] \in EscapedAttrLines},
        fs \in SeqsUpTo(MethodLines, 1)}

\* class lines whose label has one, two and four sections:
\* {E}, {E|a : Foo...} and {E|a : int | None...|}
OddClassLines ==
    { <<"\"">> \o sPkgD \o sPartSplitor \o sBeginFlag \o <<"E">> \o sEndFlag \o sLineEnd,
      <<"\"">> \o sPkgD \o sPartSplitor \o sBeginFlag \o <<"E", "|">>
          \o <<"a", " ", ":", " ">> \o sFoo \o sBr \o sEndFlag \o sLineEnd,
      ClassLine(sPkgD, <<"E">>,
                <<<<"a", " ", ":", " ", "i", "n", "t", " ", "|", " ">> \o sNone>>, <<>>) }

\* the texts of classes.dot analysed: a generated class line after the
\* digraph line, before an edge line, or after another class line; a class
\* line with escaped bars before another class line
DiagramTexts ==
    {<<sDigraphLine, l>> : l \in GeneratedClassLines}
        \cup {<<l, sEdgeLine>> : l \in GeneratedClassLines}
        \cup {<<sOtherClassLine, l>> : l \in GeneratedClassLines}
        \cup {<<l, sOtherClassLine>> : l \in EscapedClassLines}
        \cup {<<sDigraphLine, l, sOtherClassLine>> : l \in OddClassLines}

InitClasses ==
    /\ pc = "start"
    /\ SequenceIdle
    /\ RebuildIdle
    /\ EdgeIdle
    /\ v = <<>>
    /\ attr = NoValue
    /\ method = NoValue
    /\ lines \in DiagramTexts
    /\ class_views = <<>>
    /\ SymbolsIdle
    /\ NsIdle
    /\ RepairIdle

\* one turn of the loop of _parse_classes: the line is skipped, or its label
\* does not unpack into three sections (ValueError), or a DotClassInfo is
\* appended
IngestLine ==
    /\ pc = "start"
    /\ lines # <<>>
    /\ LET split    == split_class_line(Head(lines))
           sections == SplitUnescapedBar(split.info)
       IN  IF split.package_name = <<>>
           THEN /\ lines' = Tail(lines)
                /\ UNCHANGED <<pc, class_views>>
           ELSE IF Len(sections) # 3
           THEN /\ pc' = "raised"
                /\ UNCHANGED <<lines, class_views>>
           ELSE /\ \E class_info \in ClassInfos(split.package_name, sections) :
                       class_views' = Append(class_views, class_info)
                /\ lines' = Tail(lines)
                /\ UNCHANGED pc
    /\ UNCHANGED <<parserVars, symbolVars, nsVars, repairVars, edgeVars, rebuildVars, sequenceVars>>

\* return class_views
ReturnClasses ==
    /\ pc = "start"
    /\ lines = <<>>
    /\ pc' = "done"
    /\ UNCHANGED <<parserVars, classVars, symbolVars, nsVars, repairVars, edgeVars, rebuildVars, sequenceVars>>

NextClasses == IngestLine \/ ReturnClasses

SpecClasses == InitClasses /\ [][NextClasses]_vars

\* C1: no type name is both a composition and an aggregation of a DotClassInfo
\* that _parse_classes has built.
C1_CompositionsDisjointFromAggregations ==
    \A i \in 1..Len(class_views) :
        Range(class_views[i].compositions) \cap Range(class_views[i].aggregations) = {}

\* a class has been ingested one of whose methods refers to a type that an
\* attribute of the class refers to, and another that none refers to
C1_Witness ==
    \E i \in 1..Len(class_views) :
        LET c == class_views[i]
        IN  /\ c.aggregations # <<>>
            /\ \E k \in DOMAIN c.methods :
                   Range(c.methods[k].aggregations) \cap Range(c.compositions) # {}

\* a line with "\z" for each "\|": the escaped bar as an ordinary character
BarAsOrdinary(line) ==
    [i \in 1..Len(line) |->
        IF line[i] = "|" /\ i > 1 /\ line[i - 1] = "\\" THEN "z" ELSE line[i]]

\* a class line whose label has escaped bars, all of them among its attribute
\* lines, and three sections when they are read as ordinary characters
HasEscapedBarAttribute(line) ==
    LET split == split_class_line(line)
        plain == PySplit(split_class_line(BarAsOrdinary(line)).info, "|")
    IN  /\ split.package_name # <<>>
        /\ PyIn(sEscapedBar, split.info)
        /\ Len(plain) = 3
        /\ ~PyIn(<<"\\", "z">>, plain[1])
        /\ ~PyIn(<<"\\", "z">>, plain[3])

\* C11: the label of a class line is cut into sections only at bars no
\* backslash precedes: a class line with an escaped bar in an attribute
\* default gives exactly one DotClassInfo, with the attribute names (and so
\* the attribute count) and the method names the line gives when the escaped
\* bar is an ordinary character: no attribute text becomes a method.
C11_EscapedBarIsContent ==
    [][ (pc = "start" /\ lines # <<>> /\ HasEscapedBarAttribute(Head(lines)))
          => /\ pc' = "start"
             /\ Len(class_views') = Len(class_views) + 1
             /\ LET built == class_views'[Len(class_views')]
                    plain == split_class_line(BarAsOrdinary(Head(lines)))
                IN  \E c \in ClassInfos(plain.package_name, PySplit(plain.info, "|")) :
                        /\ DOMAIN built.attributes = DOMAIN c.attributes
                        /\ DOMAIN built.methods = DOMAIN c.methods ]_vars

\* a class has been ingested with an attribute whose default holds an escaped
\* bar, next to another attribute and a method
C11_Witness ==
    \E i \in 1..Len(class_views) :
        LET c == class_views[i]
        IN  /\ \E k \in DOMAIN c.attributes : PyIn(sEscapedBar, c.attributes[k].default_)
            /\ Cardinality(DOMAIN c.attributes) = 2
            /\ Cardinality(DOMAIN c.methods) = 1

\* C15: _parse_classes does not fail on a line: each line gives one
\* DotClassInfo or is skipped, a class line whose label does not split into
\* three sections at its unescaped bars included, and the lines after it are
\* still read.
C15_OddLabelIsSkipped == pc # "raised"


(***************************************************************************)
(* Inputs of the symbol extractor: statements as ast.parse builds them     *)
(***************************************************************************)

MaxStmts == 3

MaxFiles == 3

NoExpr == Expr("None", <<>>, <<>>)

Stmt(kind) ==
    [kind |-> kind, name |-> <<>>, value |-> NoExpr, targets |-> <<>>,
     names |-> <<>>, module |-> <<>>, body |-> <<>>, lineno |-> 0, end_lineno |-> 0]

Name(id) == Expr("Name", id, <<>>)

Constant(value) == Expr("Constant", value, <<>>)

sX == <<"x">>

sY == <<"y">>

sOs == <<"o", "s">>

sMain == <<"m", "a", "i", "n">>

sDunderName == <<"_", "_", "n", "a", "m", "e", "_", "_">>

sDunderMain == <<"_", "_", "m", "a", "i", "n", "_", "_">>

\* x[0]
SubscriptX == Expr("Subscript", <<>>, <<Name(sX)>>)

\* """x"""
ExprDocstring == [Stmt("Expr") EXCEPT !.value = Constant(sX)]

\* main()
ExprCall == [Stmt("Expr") EXCEPT !.value = Expr("Call", <<>>, <<Name(sMain)>>)]

\* x
ExprName == [Stmt("Expr") EXCEPT !.value = Name(sX)]

\* import os as x
ImportOs == [Stmt("Import") EXCEPT !.names = <<[name |-> sOs, asname |-> sX]>>]

\* from os import main
ImportFromOs ==
    [Stmt("ImportFrom") EXCEPT !.module = sOs,
                               !.names = <<[name |-> sMain, asname |-> <<>>]>>]

\* x = y = 1
AssignNames == [Stmt("Assign") EXCEPT !.targets = <<Name(sX), Name(sY)>>,
                                      !.value = Constant(PyIntOne)]

\* x[0] = 1
AssignSubscript == [Stmt("Assign") EXCEPT !.targets = <<SubscriptX>>,
                                          !.value = Constant(PyIntOne)]

\* y: int = 1
AnnAssignName == [Stmt("AnnAssign") EXCEPT !.targets = <<Name(sY)>>,
                                           !.value = Constant(PyIntOne)]

\* x[0]: int = 1
AnnAssignSubscript == [Stmt("AnnAssign") EXCEPT !.targets = <<SubscriptX>>,
                                                !.value = Constant(PyIntOne)]

\* def main(): ...
FunctionDefMain == [Stmt("FunctionDef") EXCEPT !.name = sMain]

\* class Foo: y = 1; def main(self): ...
ClassDefFoo ==
    [Stmt("ClassDef") EXCEPT !.name = sFoo, !.body = <<AnnAssignName, FunctionDefMain>>]

\* if __name__ == "__main__": main()
IfMain ==
    [Stmt("If") EXCEPT
        !.value = Expr("Compare", <<>>, <<Name(sDunderName), Constant(sDunderMain)>>),
        !.body = <<ExprCall>>]

\* if x == 1 and y: ...
IfBoolOp ==
    [Stmt("If") EXCEPT
        !.value = Expr("BoolOp", <<>>,
                       <<Expr("Compare", <<>>, <<Name(sOs), Constant(PyIntOne)>>),
                         Name(sY)>>)]

\* try: ... except: ...
TryStmt == Stmt("Try")

\* for x in y: ...
ForStmt == Stmt("For")

StmtSamples ==
    {ExprDocstring, ExprCall, ExprName, ImportOs, ImportFromOs, AssignNames,
     AssignSubscript, AnnAssignName, AnnAssignSubscript, FunctionDefMain,
     ClassDefFoo, IfMain, IfBoolOp, TryStmt, ForStmt}

\* the statements of a module body carry their position as line numbers
WithLines(body) ==
    [i \in DOMAIN body |-> [body[i] EXCEPT !.lineno = i, !.end_lineno = i]]

Trees == {WithLines(body) : body \in SeqsUpTo(StmtSamples, MaxStmts)}

sModPy == <<"m", ".", "p", "y">>

(***************************************************************************)
(* extract_class_and_function_info on one file, a node at a time           *)
(***************************************************************************)

InitExtract ==
    /\ pc = "start"
    /\ SequenceIdle
    /\ RebuildIdle
    /\ EdgeIdle
    /\ ParsersIdle
    /\ ClassesIdle
    /\ tree \in Trees
    /\ file_info = NewFileInfo(sModPy)
    /\ matching_files = <<>>
    /\ files_classes = <<>>
    /\ NsIdle
    /\ RepairIdle

\* one turn of "for node in tree"; a NotImplementedError leaves the function
ExtractNode ==
    /\ pc = "start"
    /\ tree # <<>>
    /\ LET step == ExtractNodeInto(file_info, Head(tree))
       IN  IF step.raised
           THEN /\ pc' = "raised"
                /\ UNCHANGED <<tree, file_info>>
           ELSE /\ file_info' = step.value
                /\ tree' = Tail(tree)
                /\ UNCHANGED pc
    /\ UNCHANGED <<parserVars, classVars, matching_files, files_classes, nsVars, repairVars, edgeVars, rebuildVars, sequenceVars>>

\* return file_info
ReturnFileInfo ==
    /\ pc = "start"
    /\ tree = <<>>
    /\ pc' = "done"
    /\ UNCHANGED <<parserVars, classVars, symbolVars, nsVars, repairVars, edgeVars, rebuildVars, sequenceVars>>

NextExtract == ExtractNode \/ ReturnFileInfo

SpecExtract == InitExtract /\ [][NextExtract]_vars

\* C2: extract_class_and_function_info never raises: whatever the top-level
\* statements of the file are (an unsupported kind, a bare expression of any
\* shape, an unresolvable assignment or annotated-assignment target), the
\* loop is not left before every statement has been processed.
C2_ExtractNeverRaises == pc # "raised"

\* C13: page_info holds at most one CodeBlockInfo for a top-level statement
\* and holds them in the order of the statements: the line numbers of its
\* blocks, which are the positions of their statements, strictly ascend.
C13_PageInfoInSourceOrder ==
    \A i, j \in 1..Len(file_info.page_info) :
        i < j => file_info.page_info[i].lineno < file_info.page_info[j].lineno

\* the blocks of the first and the third statement of a file are in
\* page_info, the second statement having given none
C13_Witness ==
    /\ Len(file_info.page_info) = 2
    /\ file_info.page_info[1].lineno = 1
    /\ file_info.page_info[2].lineno = 3

\* the resolved left operand of each sub-comparison among the values of a
\* boolean combination, a whole str each, in order
RECURSIVE LeftOperands(_)
LeftOperands(values) ==
    IF values = <<>> THEN <<>>
    ELSE (IF Head(values).kind = "Compare"
          THEN <<parse_variable(Head(values).sub[1])>> ELSE <<>>)
             \o LeftOperands(Tail(values))

\* the tokens claimed for a conditional statement
ClaimedIfTokens(n) ==
    CASE n.value.kind = "BoolOp"  -> LeftOperands(n.value.sub)
      [] n.value.kind = "Compare" -> MapParseVariable(n.value.sub)
      [] OTHER                    -> <<>>

\* C18: the block of a conditional statement has for tokens, when its test
\* is a boolean combination, the resolved left operand of each
\* sub-comparison, one whole str for each, in order; when its test is one
\* comparison, the resolved left operand and then the resolved operand of
\* each comparator, in order.
C18_IfTokensAreOperands ==
    [][ (pc = "start" /\ tree # <<>> /\ Head(tree).kind = "If" /\ pc' = "start")
          => file_info'.page_info[Len(file_info'.page_info)].tokens
                 = ClaimedIfTokens(Head(tree)) ]_vars



(***************************************************************************)
(* generate_symbols over the files of a directory, a file at a time        *)
(***************************************************************************)

File(path, parsable, body) == [path |-> path, parsable |-> parsable, body |-> WithLines(body)]

\* a file whose text is not Python ("def f(:")
FileBroken == File(<<"b", ".", "p", "y">>, FALSE, <<>>)

\* an empty file
FileEmpty == File(<<"e", ".", "p", "y">>, TRUE, <<>>)

\* a module of imports, a class and a function
FileLibrary ==
    File(<<"l", ".", "p", "y">>, TRUE, <<ImportOs, ClassDefFoo, FunctionDefMain>>)

\* a script: docstring, a global, a main guard
FileScript == File(sModPy, TRUE, <<ExprDocstring, AssignNames, IfMain>>)

\* a module whose second statement is the bare expression x
FileBareName == File(<<"n", ".", "p", "y">>, TRUE, <<ImportFromOs, ExprName>>)

FileSamples == {FileBroken, FileEmpty, FileLibrary, FileScript, FileBareName}

\* the lists rglob can give: no path twice
MatchedFiles ==
    {files \in SeqsUpTo(FileSamples, MaxFiles) :
        \A i, j \in DOMAIN files : i # j => files[i] # files[j]}

InitSymbols ==
    /\ pc = "start"
    /\ SequenceIdle
    /\ RebuildIdle
    /\ EdgeIdle
    /\ ParsersIdle
    /\ ClassesIdle
    /\ tree = <<>>
    /\ file_info = NoValue
    /\ matching_files \in MatchedFiles
    /\ files_classes = <<>>
    /\ NsIdle
    /\ RepairIdle

\* one turn of "for path in matching_files": _parse_file, then
\* extract_class_and_function_info, whose exception leaves generate_symbols
ProcessFile ==
    /\ pc = "start"
    /\ Len(files_classes) < Len(matching_files)
    /\ LET path   == matching_files[Len(files_classes) + 1]
           result == SymbolsOfFile(path)
       IN  IF result.raised
           THEN /\ pc' = "raised"
                /\ tree' = parse_file(path)
                /\ UNCHANGED <<file_info, files_classes>>
           ELSE /\ tree' = parse_file(path)
                /\ file_info' = result.value
                /\ files_classes' = Append(files_classes, result.value)
                /\ UNCHANGED pc
    /\ UNCHANGED <<parserVars, classVars, matching_files, nsVars, repairVars, edgeVars, rebuildVars, sequenceVars>>

\* return files_classes
ReturnSymbols ==
    /\ pc = "start"
    /\ Len(files_classes) = Len(matching_files)
    /\ pc' = "done"
    /\ UNCHANGED <<parserVars, classVars, symbolVars, nsVars, repairVars, edgeVars, rebuildVars, sequenceVars>>

NextSymbols == ProcessFile \/ ReturnSymbols

SpecSymbols == InitSymbols /\ [][NextSymbols]_vars

EmptyFileInfo(info) ==
    /\ info.classes = <<>>
    /\ info.functions = <<>>
    /\ info.globals = <<>>
    /\ info.page_info = <<>>

Parsable(file) == file.parsable

\* C8: when generate_symbols has ended on a directory holding a file that
\* cannot be parsed, it has returned one record for every matched file, the
\* record of each unparsable file is empty, and the records of the other
\* files are the ones a run without the unparsable files returns.
C8_UnparsableFileIsContained ==
    (pc \in {"done", "raised"} /\ \E i \in DOMAIN matching_files : ~Parsable(matching_files[i]))
        => /\ pc = "done"
           /\ Len(files_classes) = Len(matching_files)
           /\ \A i \in DOMAIN matching_files :
                  ~Parsable(matching_files[i]) => EmptyFileInfo(files_classes[i])
           /\ LET others  == SelectSeq(matching_files, Parsable)
                  kept    == {i \in DOMAIN matching_files : Parsable(matching_files[i])}
                  records == [k \in 1..Cardinality(kept) |->
                                files_classes[CHOOSE i \in kept :
                                    Cardinality({j \in kept : j <= i}) = k]]
                  without == GenerateSymbols(others)
              IN  ~without.raised /\ without.value = records

\* the containment itself, where no sibling file stops the run
UnparsableContainedWhenDone ==
    (pc = "done" /\ \E i \in DOMAIN matching_files : ~Parsable(matching_files[i]))
        => C8_UnparsableFileIsContained

(***************************************************************************)
(* Namespace reconciliation: _repair_ns                                    *)
(***************************************************************************)

\* ix before its first assignment
Unbound == -2

\* the while loop of _repair_ns: file_ns loses what follows its last '.', or
\* its last character when it has no '.', until it is a key or empty
RECURSIVE StripToKey(_, _, _)
StripToKey(file_ns, ix, m) ==
    IF file_ns = <<>> \/ file_ns \in DOMAIN m THEN [file_ns |-> file_ns, ix |-> ix]
    ELSE LET i == PyRFind(file_ns, <<".">>)
         IN  StripToKey(PySlice(file_ns, 0, i), i, m)

\* RepoParser._repair_ns: UnboundLocalError when the loop body never ran,
\* KeyError when no key was met
repair_ns(p, m) ==
    LET found == StripToKey(p, Unbound, m)
        internal_ns == PySliceFrom(p, found.ix + 1)
    IN  IF found.ix = Unbound THEN Raised
        ELSE IF found.file_ns \notin DOMAIN m THEN Raised
        ELSE Ok(m[found.file_ns] \o <<":">> \o PyReplaceChar(internal_ns, ".", ":"))

(***************************************************************************)
(* _repair_ns on raw package strings and mappings                          *)
(***************************************************************************)

MaxNsLen == 4

sA == <<"a">>

sAB == <<"a", ".", "b">>

NsChars == {<<"a">>, <<"b">>, <<".">>}

NsStrings == FragStrings(NsChars, MaxNsLen)

\* the file a key of the mapping stands for
PathOfKey(k) == PyReplaceChar(k, ".", "/") \o <<".", "p", "y">>

NsKeys == {<<>>, sA, sAB, <<"b">>}

NsMappings == {[k \in keys |-> PathOfKey(k)] : keys \in SUBSET NsKeys}

InitNs ==
    /\ pc = "start"
    /\ SequenceIdle
    /\ RebuildIdle
    /\ EdgeIdle
    /\ ParsersIdle
    /\ ClassesIdle
    /\ SymbolsIdle
    /\ RepairIdle
    /\ package \in NsStrings
    /\ mappings \in NsMappings
    /\ ns = NoValue

DoRepairNs ==
    /\ pc = "start"
    /\ ns' = repair_ns(package, mappings)
    /\ pc' = IF ns'.raised THEN "raised" ELSE "done"
    /\ UNCHANGED <<parserVars, classVars, symbolVars, package, mappings, repairVars, edgeVars, rebuildVars, sequenceVars>>

NextNs == DoRepairNs

SpecNs == InitNs /\ [][NextNs]_vars

\* the lengths of the prefixes of p that are keys of m and are p itself or end
\* just before a '.'
MatchingPrefixes(p, m) ==
    {k \in 0..Len(p) : /\ k = Len(p) \/ p[k + 1] = "."
                       /\ SubSeq(p, 1, k) \in DOMAIN m}

LongestMatch(p, m) ==
    CHOOSE k \in MatchingPrefixes(p, m) : \A j \in MatchingPrefixes(p, m) : j <= k

\* M[K] + ':' + R of the longest matching prefix K, R being what follows K
\* and its '.' in p, with ':' for each of its '.'
ClaimedNs(p, m) ==
    LET k == LongestMatch(p, m)
    IN  m[SubSeq(p, 1, k)] \o <<":">> \o PyReplaceChar(SubSeq(p, k + 2, Len(p)), ".", ":")

\* C4: whenever the package itself or a prefix of it that ends just before a
\* '.' is a key of the mapping, _repair_ns returns the value of the longest
\* such key, ':', and the rest of the package with ':' for each '.' (nothing
\* when the key is the whole package).
C4_RepairNsLongestPrefix ==
    (pc # "start" /\ MatchingPrefixes(package, mappings) # {})
        => ns = Ok(ClaimedNs(package, mappings))

\* the same, for a package that is not itself a key
RepairNsOfProperPrefix ==
    (pc # "start" /\ MatchingPrefixes(package, mappings) # {}
                  /\ package \notin DOMAIN mappings)
        => ns = Ok(ClaimedNs(package, mappings))

(***************************************************************************)
(* Namespace reconciliation: _find_root, _create_path_mapping,             *)
(* _repair_namespaces                                                      *)
(*                                                                         *)
(* A directory is [path, files, dirs]: its path as str(path) gives it, the *)
(* paths of the files in it, and the directories in it.                    *)
(***************************************************************************)

\* s.lstrip("/")
RECURSIVE LStripSlash(_)
LStripSlash(s) == IF s # <<>> /\ Head(s) = "/" THEN LStripSlash(Tail(s)) ELSE s

\* the loop of _find_root: the longest tail of full_key, cut after a '.',
\* that occurs in the package, or the last segment
RECURSIVE FindLeft(_, _)
FindLeft(left, p) ==
    IF left = <<>> \/ PyIn(left, p) \/ ~PyIn(<<".">>, left) THEN left
    ELSE FindLeft(PySliceFrom(left, PyFind(left, <<".">>) + 1), p)

\* RepoParser._find_root
find_root(full_key, p) ==
    <<".">> \o PySlice(full_key, 0, PyRFind(full_key, FindLeft(full_key, p)))

\* str(Path(f).with_suffix("")): the name loses what follows its last '.',
\* unless that '.' begins or ends it
WithoutSuffix(f) ==
    LET slash == PyRFind(f, <<"/">>)
        name  == PySliceFrom(f, slash + 1)
        i     == PyRFind(name, <<".">>)
    IN  IF 0 < i /\ i < Len(name) - 1 THEN PySlice(f, 0, slash + 1 + i) ELSE f

\* dict.update over the mappings of the subfolders
RECURSIVE MergeMappings(_)
MergeMappings(ms) ==
    IF ms = {} THEN <<>>
    ELSE LET m == CHOOSE x \in ms : TRUE
         IN  m @@ MergeMappings(ms \ {m})

\* RepoParser._create_path_mapping: the entry of the directory itself, then
\* those of its subfolders, then those of its files (no two entries of a
\* directory here give one key, so the order of iterdir() is immaterial)
RECURSIVE create_path_mapping(_)
create_path_mapping(d) ==
    LET own        == (PyReplaceChar(d.path, "/", ".") :> d.path)
        subfolders == MergeMappings({create_path_mapping(x) : x \in d.dirs})
        keyOf(f)   == PyReplaceChar(WithoutSuffix(f), "/", ".")
        files      == [k \in {keyOf(f) : f \in d.files} |->
                          CHOOSE f \in d.files : keyOf(f) = k]
    IN  files @@ subfolders @@ own

\* the loop over class_views of _repair_namespaces; the packages are
\* assigned in place, so the classes before one that raises stay repaired
RECURSIVE RepairClasses(_, _)
RepairClasses(cs, m) ==
    IF cs = <<>> THEN Ok(<<>>)
    ELSE LET r == repair_ns(Head(cs).package, m)
         IN  IF r.raised THEN [raised |-> TRUE, value |-> cs]
             ELSE LET rest == RepairClasses(Tail(cs), m)
                  IN  [raised |-> rest.raised,
                       value  |-> <<[Head(cs) EXCEPT !.package = r.value]>> \o rest.value]

\* the loop over relationship_views of _repair_namespaces
RECURSIVE RepairRelationships(_, _)
RepairRelationships(rs, m) ==
    IF rs = <<>> THEN Ok(<<>>)
    ELSE LET src  == repair_ns(Head(rs).src, m)
             dest == repair_ns(Head(rs).dest, m)
         IN  IF src.raised THEN [raised |-> TRUE, value |-> rs]
             ELSE IF dest.raised
             THEN [raised |-> TRUE,
                   value  |-> <<[Head(rs) EXCEPT !.src = src.value]>> \o Tail(rs)]
             ELSE LET rest == RepairRelationships(Tail(rs), m)
                  IN  [raised |-> rest.raised,
                       value  |-> <<[Head(rs) EXCEPT !.src = src.value,
                                                     !.dest = dest.value]>>
                                      \o rest.value]

\* the new_mappings of _repair_namespaces: keys and values without the root
RootRelative(m, root_namespace, root_path) ==
    [nk \in {PySliceFrom(k, Len(root_namespace)) : k \in DOMAIN m} |->
        LET k == CHOOSE x \in DOMAIN m : PySliceFrom(x, Len(root_namespace)) = nk
        IN  PySliceFrom(m[k], Len(root_path))]

\* RepoParser._repair_namespaces: the two lists as the call leaves them, the
\* root path, and whether it raised
repair_namespaces(cvs, rvs, d) ==
    IF cvs = <<>>
    THEN [raised |-> FALSE, class_views |-> <<>>, relationship_views |-> <<>>,
          root_path |-> <<>>]
    ELSE LET full_key       == PyReplaceChar(LStripSlash(d.path), "/", ".")
             root_namespace == find_root(full_key, cvs[1].package)
             root_path      == PyReplaceChar(root_namespace, ".", "/")
             new_mappings   == RootRelative(create_path_mapping(d), root_namespace, root_path)
             classes        == RepairClasses(cvs, new_mappings)
             relationships  == IF classes.raised THEN [raised |-> TRUE, value |-> rvs]
                               ELSE RepairRelationships(rvs, new_mappings)
         IN  [raised |-> relationships.raised, class_views |-> classes.value,
              relationship_views |-> relationships.value, root_path |-> root_path]

(***************************************************************************)
(* _repair_namespaces on the classes and edges of a directory, and again   *)
(* on what it returned                                                     *)
(***************************************************************************)

MaxClasses == 2

MaxEdges == 1

Directory(path, files, dirs) == [path |-> path, files |-> files, dirs |-> dirs]

\* /w/p holding m.py and the folder s, which holds n.py
DirNested ==
    Directory(<<"/", "w", "/", "p">>, {<<"/", "w", "/", "p", "/", "m", ".", "p", "y">>}, {Directory(<<"/", "w", "/", "p", "/", "s">>, {<<"/", "w", "/", "p", "/", "s", "/", "n", ".", "p", "y">>}, {})})

\* /p holding m.py and n.py
DirFlat == Directory(<<"/", "p">>, {<<"/", "p", "/", "m", ".", "p", "y">>, <<"/", "p", "/", "n", ".", "p", "y">>}, {})

\* /p/p holding m.py
DirTwice == Directory(<<"/", "p", "/", "p">>, {<<"/", "p", "/", "p", "/", "m", ".", "p", "y">>}, {})

\* the packages pyreverse names for the classes of a directory; q.C is a
\* class of a module that lies elsewhere
PackagesOf(d) ==
    CASE d = DirNested -> {<<"p", ".", "m", ".", "C">>, <<"p", ".", "s", ".", "n", ".", "D">>, <<"q", ".", "C">>}
      [] d = DirFlat   -> {<<"p", ".", "m", ".", "C">>, <<"p", ".", "n", ".", "D">>, <<"q", ".", "C">>}
      [] d = DirTwice  -> {<<"p", ".", "m", ".", "C">>, <<"p", ".", "m", ".", "D">>, <<"q", ".", "C">>}

Directories == {DirNested, DirFlat, DirTwice}

\* the DotClassInfo of a class line with nothing in its sections
ClassOf(p) == NewClassInfo(PySliceFrom(p, PyRFind(p, <<".">>) + 1), p)

sGeneralization == <<"G", "e", "n", "e", "r", "a", "l", "i", "z", "a", "t", "i", "o", "n">>

DotClassRelationship(src, dest, relationship) ==
    [src |-> src, dest |-> dest, relationship |-> relationship, label |-> PyNone]

EdgesOf(d) ==
    {DotClassRelationship(a, b, sGeneralization) : a, b \in PackagesOf(d)}

InitRepair ==
    /\ pc = "start"
    /\ SequenceIdle
    /\ RebuildIdle
    /\ EdgeIdle
    /\ ParsersIdle
    /\ lines = <<>>
    /\ SymbolsIdle
    /\ NsIdle
    /\ directory \in Directories
    /\ class_views \in SeqsUpTo({ClassOf(p) : p \in PackagesOf(directory)}, MaxClasses)
    /\ relationship_views \in SeqsUpTo(EdgesOf(directory), MaxEdges)
    /\ reconciled = NoValue

\* the call rebuild_class_views makes
RepairNamespaces ==
    /\ pc = "start"
    /\ LET result == repair_namespaces(class_views, relationship_views, directory)
       IN  /\ class_views' = result.class_views
           /\ relationship_views' = result.relationship_views
           /\ IF result.raised
              THEN pc' = "raised" /\ UNCHANGED reconciled
              ELSE pc' = "repaired" /\ reconciled' = result
    /\ UNCHANGED <<parserVars, lines, symbolVars, nsVars, directory, edgeVars, rebuildVars, sequenceVars>>

\* a second call, on the lists the first one returned
RepairNamespacesAgain ==
    /\ pc = "repaired"
    /\ LET result == repair_namespaces(class_views, relationship_views, directory)
       IN  /\ class_views' = result.class_views
           /\ relationship_views' = result.relationship_views
           /\ pc' = IF result.raised THEN "raised again" ELSE "repaired again"
    /\ UNCHANGED <<parserVars, lines, symbolVars, nsVars, directory, reconciled, edgeVars, rebuildVars, sequenceVars>>

NextRepair == RepairNamespaces \/ RepairNamespacesAgain

SpecRepair == InitRepair /\ [][NextRepair]_vars

\* C3: reconciliation is idempotent: a second _repair_namespaces on the lists
\* the first one returned, with the same path and the same directory, does
\* not raise and leaves every class package and every edge src and dest as
\* the first call returned them.
C3_ReconciliationIsIdempotent ==
    pc \in {"repaired again", "raised again"}
        => /\ pc = "repaired again"
           /\ class_views = reconciled.class_views
           /\ relationship_views = reconciled.relationship_views

\* C16: _repair_namespaces returns for every class and edge of the diagram,
\* those whose package has no prefix among the keys of the mapping included.
C16_RepairNamespacesReturns == pc # "raised"


(***************************************************************************)
(* RepoParser._split_relationship_line                                     *)
(***************************************************************************)

\* s.strip(c) for a character c
RECURSIVE PyStripChar(_, _)
PyStripChar(s, c) ==
    IF s # <<>> /\ Head(s) = c THEN PyStripChar(Tail(s), c)
    ELSE IF s # <<>> /\ s[Len(s)] = c THEN PyStripChar(SubSeq(s, 1, Len(s) - 1), c)
    ELSE s

\* the relationship kinds of metagpt.const
GENERALIZATION == <<"G", "e", "n", "e", "r", "a", "l", "i", "z", "e">>

COMPOSITION == <<"C", "o", "m", "p", "o", "s", "i", "t", "e">>

AGGREGATION == <<"A", "g", "g", "r", "e", "g", "a", "t", "e">>

sArrow == <<" ", "-", ">", " ">>

sBracket == <<" ", "[">>

sClose == <<"]", ";">>

sLabelTag == <<"l", "a", "b", "e", "l", "=", "\"">>

sArrowheadEmpty == <<"a", "r", "r", "o", "w", "h", "e", "a", "d", "=", "\"", "e", "m", "p", "t", "y", "\"">>

sArrowheadDiamond == <<"a", "r", "r", "o", "w", "h", "e", "a", "d", "=", "\"", "d", "i", "a", "m", "o", "n", "d", "\"">>

sArrowheadODiamond == <<"a", "r", "r", "o", "w", "h", "e", "a", "d", "=", "\"", "o", "d", "i", "a", "m", "o", "n", "d", "\"">>

\* RepoParser._get_label
get_label(line) ==
    IF ~PyIn(sLabelTag, line) THEN <<>>
    ELSE LET ix  == PyFind(line, sLabelTag)
             eix == PyFindFrom(line, <<"\"">>, ix + Len(sLabelTag))
         IN  PySlice(line, ix + Len(sLabelTag), eix)

\* the loop over mappings.items() taking the label whatever the kind is
WithKindAndLabel(r, properties) ==
    CASE PyIn(sArrowheadEmpty, properties) ->
             [r EXCEPT !.relationship = GENERALIZATION, !.label = get_label(properties)]
      [] PyIn(sArrowheadDiamond, properties) ->
             [r EXCEPT !.relationship = COMPOSITION, !.label = get_label(properties)]
      [] PyIn(sArrowheadODiamond, properties) ->
             [r EXCEPT !.relationship = AGGREGATION, !.label = get_label(properties)]
      [] OTHER -> r

\* the loop over mappings.items(): the first key found in the properties
\* gives the kind, and the label unless the kind is GENERALIZATION
WithKind(r, properties) ==
    CASE PyIn(sArrowheadEmpty, properties) ->
             [r EXCEPT !.relationship = GENERALIZATION]
      [] PyIn(sArrowheadDiamond, properties) ->
             [r EXCEPT !.relationship = COMPOSITION, !.label = get_label(properties)]
      [] PyIn(sArrowheadODiamond, properties) ->
             [r EXCEPT !.relationship = AGGREGATION, !.label = get_label(properties)]
      [] OTHER -> r

\* the None that _split_relationship_line returns for a line that is no edge
NoEdge == [src |-> PyNone, dest |-> PyNone, relationship |-> PyNone, label |-> PyNone]

\* RepoParser._split_relationship_line: None, or a DotClassRelationship
split_relationship_line(line) ==
    IF ~PyIn(sArrow, line) \/ ~PyIn(sBracket, line) \/ ~PyIn(sClose, line) THEN NoEdge
    ELSE LET i1 == PyFind(line, sArrow)
             i2 == PyFind(line, sBracket)
             i3 == PyFind(line, sClose)
             properties == PyStripChar(PySlice(line, i2 + Len(sBracket), i3), " ")
         IN  WithKind([src          |-> PyStripChar(PySlice(line, 0, i1), "\""),
                       dest         |-> PyStripChar(PySlice(line, i1 + Len(sArrow), i2), "\""),
                       relationship |-> <<>>,
                       label        |-> PyNone],
                      properties)

(***************************************************************************)
(* _split_relationship_line on the lines of a classes.dot                  *)
(***************************************************************************)

MaxProps == 3

MaxEdgeFrags == 4

sArrowheadVee == <<"a", "r", "r", "o", "w", "h", "e", "a", "d", "=", "\"", "v", "e", "e", "\"">>

sLabelItems == <<"l", "a", "b", "e", "l", "=", "\"", "i", "t", "e", "m", "s", "\"">>

sLabelEmpty == <<"l", "a", "b", "e", "l", "=", "\"", "\"">>

Arrowheads == {sArrowheadEmpty, sArrowheadDiamond, sArrowheadODiamond, sArrowheadVee}

Labels == {sLabelItems, sLabelEmpty}

\* the properties pyreverse writes on an edge
PropSamples ==
    Arrowheads \cup Labels \cup {<<"a", "r", "r", "o", "w", "t", "a", "i", "l", "=", "\"", "n", "o", "n", "e", "\"">>, <<"f", "o", "n", "t", "c", "o", "l", "o", "r", "=", "\"", "g", "r", "e", "e", "n", "\"">>}

\* property lists with at most one arrowhead and at most one label
PropLists ==
    {ps \in SeqsUpTo(PropSamples, MaxProps) :
        \A i, j \in DOMAIN ps :
            i # j => /\ ps[i] # ps[j]
                     /\ ~(ps[i] \in Arrowheads /\ ps[j] \in Arrowheads)
                     /\ ~(ps[i] \in Labels /\ ps[j] \in Labels)}

RECURSIVE JoinComma(_)
JoinComma(ps) ==
    IF ps = <<>> THEN <<>>
    ELSE IF Len(ps) = 1 THEN ps[1]
    ELSE Head(ps) \o <<",", " ">> \o JoinComma(Tail(ps))

\* "p.m.D" -> "p.m.C" [<properties>];
EdgeLine(ps) ==
    <<"\"">> \o sPkgD \o <<"\"">> \o sArrow \o <<"\"">> \o sPkgC \o <<"\"">>
        \o sBracket \o JoinComma(ps) \o sClose

\* lines holding the three splitters in every order, and some of them only
SplitterLines == FragStrings({sArrow, sBracket, sClose, sA, <<"\"">>}, MaxEdgeFrags)

\* "p.C" [label=<{C|f(x) -> int|}>, shape="record"];
sArrowClassLine == <<"\"", "p", ".", "C", "\"", " ", "[", "l", "a", "b", "e", "l", "=", "<", "{", "C", "|", "f", "(", "x", ")", " ", "-", ">", " ", "i", "n", "t", "|", "}", ">", ",", " ", "s", "h", "a", "p", "e", "=", "\"", "r", "e", "c", "o", "r", "d", "\"", "]", ";">>

EdgeLines ==
    {EdgeLine(ps) : ps \in PropLists} \cup SplitterLines
        \cup {sDigraphLine, sOtherClassLine, sArrowClassLine}

InitEdge ==
    /\ pc = "start"
    /\ SequenceIdle
    /\ RebuildIdle
    /\ ParsersIdle
    /\ ClassesIdle
    /\ SymbolsIdle
    /\ NsIdle
    /\ RepairIdle
    /\ dot_line \in EdgeLines
    /\ ret = NoValue

DoSplitRelationshipLine ==
    /\ pc = "start"
    /\ ret' = split_relationship_line(dot_line)
    /\ pc' = "done"
    /\ UNCHANGED <<parserVars, classVars, symbolVars, nsVars, repairVars, dot_line, rebuildVars, sequenceVars>>

NextEdge == DoSplitRelationshipLine

SpecEdge == InitEdge /\ [][NextEdge]_vars

\* the 0-based offsets at which sub occurs in s
Occurrences(s, sub) == {i \in 0..(Len(s) - Len(sub)) : MatchesAt(s, sub, i)}

\* ' -> ' occurs before ' [' which occurs before '];'
SplittersInOrder(line) ==
    \E i \in Occurrences(line, sArrow) :
        \E j \in Occurrences(line, sBracket) :
            \E k \in Occurrences(line, sClose) : i < j /\ j < k

\* the properties of an edge line: what stands between ' [' and '];', cut at
\* the commas, as <<name, value>> pairs
PropertyPairs(line) ==
    LET text  == PySlice(line, PyFind(line, sBracket) + Len(sBracket), PyFind(line, sClose))
        items == PySplit(text, ",")
    IN  { LET item == PyStripChar(items[i], " ")
              eq   == PyFind(item, <<"=">>)
          IN  <<PySlice(item, 0, eq), PyStripChar(PySliceFrom(item, eq + 1), "\"")>>
          : i \in {n \in DOMAIN items : PyIn(<<"=">>, items[n])} }

HasProperty(line, name) == \E pr \in PropertyPairs(line) : pr[1] = name

PropertyOf(line, name) == (CHOOSE pr \in PropertyPairs(line) : pr[1] = name)[2]

sArrowhead == <<"a", "r", "r", "o", "w", "h", "e", "a", "d">>

sLabel == <<"l", "a", "b", "e", "l">>

\* the kind the arrowhead property of a line stands for
ClaimedKind(line) ==
    IF ~HasProperty(line, sArrowhead) THEN <<>>
    ELSE CASE PropertyOf(line, sArrowhead) = <<"e", "m", "p", "t", "y">>    -> GENERALIZATION
           [] PropertyOf(line, sArrowhead) = <<"d", "i", "a", "m", "o", "n", "d">>  -> COMPOSITION
           [] PropertyOf(line, sArrowhead) = <<"o", "d", "i", "a", "m", "o", "n", "d">> -> AGGREGATION
           [] OTHER -> <<>>

\* C12: for a recognized relationship line the kind is the one its arrowhead
\* property stands for (empty: generalization, diamond: composition,
\* odiamond: aggregation, any other or none: the empty kind); an edge of kind
\* composition or aggregation has the value of the label property for its
\* label, and an edge of kind generalization or of empty kind has no label,
\* whether the line has a label property or not.
C12_KindFromArrowhead ==
    (pc = "done" /\ ret # NoEdge /\ SplittersInOrder(dot_line))
        => /\ ret.relationship = ClaimedKind(dot_line)
           /\ ret.relationship \in {COMPOSITION, AGGREGATION} /\ HasProperty(dot_line, sLabel)
                  => ret.label = PropertyOf(dot_line, sLabel)
           /\ ret.relationship \in {GENERALIZATION, <<>>} => ret.label = PyNone

\* a generalization edge has been read from a line that has a label property
\* after its arrowhead, and a composition edge with its label
C12_Witness ==
    /\ pc = "done"
    /\ ret # NoEdge
    /\ \/ /\ ret.relationship = GENERALIZATION
          /\ HasProperty(dot_line, sLabel)
          /\ PropertyOf(dot_line, sLabel) = <<"i", "t", "e", "m", "s">>
       \/ /\ ret.relationship = COMPOSITION
          /\ ret.label = <<"i", "t", "e", "m", "s">>
          /\ Len(PropertyPairs(dot_line)) = MaxProps

\* C17: a line is taken for an edge only when it holds ' -> ' before ' ['
\* before '];': a line that holds the three in another order gives no edge.
C17_EdgeOnlyInOrder ==
    (pc = "done" /\ ret # NoEdge) => SplittersInOrder(dot_line)

(***************************************************************************)
(* RepoParser.rebuild_class_views                                          *)
(***************************************************************************)

\* RepoParser._parse_classes over all the lines of classes.dot: the lists it
\* can return, or the ValueError of a label that does not unpack
RECURSIVE ParseClassLines(_, _)
ParseClassLines(ls, views) ==
    IF ls = <<>> THEN {Ok(views)}
    ELSE LET split    == split_class_line(Head(ls))
             sections == SplitUnescapedBar(split.info)
         IN  IF split.package_name = <<>> THEN ParseClassLines(Tail(ls), views)
             ELSE IF Len(sections) # 3 THEN {Raised}
             ELSE UNION {ParseClassLines(Tail(ls), Append(views, c)) :
                            c \in ClassInfos(split.package_name, sections)}

\* RepoParser._parse_class_relationships over all the lines of classes.dot
RECURSIVE parse_class_relationships(_)
parse_class_relationships(ls) ==
    IF ls = <<>> THEN <<>>
    ELSE LET relationship == split_relationship_line(Head(ls))
         IN  (IF relationship = NoEdge THEN <<>> ELSE <<relationship>>)
                 \o parse_class_relationships(Tail(ls))

sClassesDot == <<"c", "l", "a", "s", "s", "e", "s", ".", "d", "o", "t">>

sPackagesDot == <<"p", "a", "c", "k", "a", "g", "e", "s", ".", "d", "o", "t">>

MaxDotLines == 2

\* "<src>" -> "<dest>" [<properties>];
EdgeFromTo(src, dest, ps) ==
    <<"\"">> \o src \o <<"\"">> \o sArrow \o <<"\"">> \o dest \o <<"\"">>
        \o sBracket \o JoinComma(ps) \o sClose

\* the lines pyreverse can write for a directory: a class line for each of
\* its classes, generalization and composition edges between them, and a
\* class line whose label has one section
DotLinesOf(d) ==
    {ClassLine(p, ClassOf(p).name, <<<<"a", " ", ":", " ">> \o sFoo>>, <<>>) :
        p \in PackagesOf(d)}
      \cup {EdgeFromTo(a, b, <<sArrowheadEmpty>>) : a, b \in PackagesOf(d)}
      \cup {EdgeFromTo(a, a, <<sArrowheadDiamond, sLabelItems>>) : a \in PackagesOf(d)}
      \cup {<<"\"">> \o sPkgD \o sPartSplitor \o sBeginFlag \o <<"E">> \o sEndFlag \o sLineEnd}

InitRebuild ==
    /\ pc = "start"
    /\ SequenceIdle
    /\ ParsersIdle
    /\ SymbolsIdle
    /\ NsIdle
    /\ EdgeIdle
    /\ directory \in Directories
    /\ lines \in {<<sDigraphLine>> \o ls : ls \in SeqsUpTo(DotLinesOf(directory), MaxDotLines)}
    /\ class_views = <<>>
    /\ relationship_views = <<>>
    /\ reconciled = NoValue
    /\ dot_files = {}

\* subprocess.run("pyreverse <path> -o dot"): the tool writes classes.dot and
\* packages.dot under path, or fails (CalledProcessError) and writes nothing
RunPyreverse ==
    /\ pc = "start"
    /\ \E failed \in BOOLEAN :
           IF failed
           THEN pc' = "tool failed" /\ UNCHANGED dot_files
           ELSE pc' = "tool run" /\ dot_files' = {sClassesDot, sPackagesDot}
    /\ UNCHANGED <<parserVars, classVars, symbolVars, nsVars, repairVars, edgeVars, sequenceVars>>

\* class_views = await self._parse_classes(class_view_pathname)
ParseClassViews ==
    /\ pc = "tool run"
    /\ \E result \in ParseClassLines(lines, <<>>) :
           IF result.raised
           THEN pc' = "raised" /\ UNCHANGED class_views
           ELSE pc' = "classes read" /\ class_views' = result.value
    /\ UNCHANGED <<parserVars, lines, symbolVars, nsVars, repairVars, edgeVars, dot_files, sequenceVars>>

\* relationship_views = await self._parse_class_relationships(...)
ParseRelationshipViews ==
    /\ pc = "classes read"
    /\ relationship_views' = parse_class_relationships(lines)
    /\ pc' = "relationships read"
    /\ UNCHANGED <<parserVars, classVars, symbolVars, nsVars, directory, reconciled,
                   edgeVars, dot_files, sequenceVars>>

\* RepoParser._repair_namespaces(class_views, relationship_views, path)
RepairViews ==
    /\ pc = "relationships read"
    /\ LET result == repair_namespaces(class_views, relationship_views, directory)
       IN  /\ class_views' = result.class_views
           /\ relationship_views' = result.relationship_views
           /\ IF result.raised
              THEN pc' = "raised" /\ UNCHANGED reconciled
              ELSE pc' = "repaired" /\ reconciled' = result
    /\ UNCHANGED <<parserVars, lines, symbolVars, nsVars, directory, edgeVars, dot_files, sequenceVars>>

\* class_view_pathname.unlink(missing_ok=True)
UnlinkClassView ==
    /\ pc = "repaired"
    /\ dot_files' = dot_files \ {sClassesDot}
    /\ pc' = "classes.dot unlinked"
    /\ UNCHANGED <<parserVars, classVars, symbolVars, nsVars, repairVars, edgeVars, sequenceVars>>

\* packages_pathname.unlink(missing_ok=True)
UnlinkPackages ==
    /\ pc = "classes.dot unlinked"
    /\ dot_files' = dot_files \ {sPackagesDot}
    /\ pc' = "packages.dot unlinked"
    /\ UNCHANGED <<parserVars, classVars, symbolVars, nsVars, repairVars, edgeVars, sequenceVars>>

\* return class_views, relationship_views, package_root
ReturnViews ==
    /\ pc = "packages.dot unlinked"
    /\ pc' = "done"
    /\ UNCHANGED <<parserVars, classVars, symbolVars, nsVars, repairVars, edgeVars,
                   rebuildVars, sequenceVars>>

NextRebuild ==
    \/ RunPyreverse
    \/ ParseClassViews
    \/ ParseRelationshipViews
    \/ RepairViews
    \/ UnlinkClassView
    \/ UnlinkPackages
    \/ ReturnViews

SpecRebuild == InitRebuild /\ [][NextRebuild]_vars

\* C14: when rebuild_class_views has ended after pyreverse was run, by its
\* return or by an error of _parse_classes or of _repair_namespaces,
\* classes.dot and packages.dot are no longer under the path.
C14_DotFilesDeletedOnExit ==
    pc \in {"done", "raised"} => dot_files = {}

\* the same for the normal return alone
DotFilesDeletedOnReturn == pc = "done" => dot_files = {}

(***************************************************************************)
(* RebuildSequenceView: the graph repository and its helpers               *)
(***************************************************************************)

\* GraphKeyword: the predicates and the class kind stored in the graph.
GraphKeyword ==
    [IS |-> "is", CLASS |-> <<"c", "l", "a", "s", "s">>,
     HAS_PAGE_INFO |-> "has_page_info", HAS_DETAIL |-> "has_detail",
     HAS_CLASS_VIEW |-> "has_class_view",
     HAS_CLASS_USE_CASE |-> "has_class_use_case",
     HAS_SEQUENCE_VIEW |-> "has_sequence_view",
     HAS_PARTICIPANT |-> "has_participant"]

\* SPO: one row of the graph repository.
SPO(subject, predicate, object_) ==
    [subject |-> subject, predicate |-> predicate, object_ |-> object_]

\* graph_db.select(subject=..., predicate=...)
SelectSubject(db, subject, predicate) ==
    {r \in db : r.subject = subject /\ r.predicate = predicate}

\* graph_db.select(predicate=..., object_=...)
SelectObject(db, predicate, object_) ==
    {r \in db : r.predicate = predicate /\ r.object_ = object_}

\* graph_db.select(predicate=...)
SelectPredicate(db, predicate) == {r \in db : r.predicate = predicate}

\* graph_db.insert(subject, predicate, object_)
Insert(db, subject, predicate, object_) ==
    db \cup {SPO(subject, predicate, object_)}

\* str.split(delimiter, maxsplit=1): one or two parts.
SplitOnce(s, delimiter) ==
    LET i == PyFind(s, <<delimiter>>)
    IN  IF i < 0 THEN <<s>>
        ELSE <<PySlice(s, 0, i), PySliceFrom(s, i + 1)>>

\* split_namespace(ns_class_name): the namespace and the class name.
split_namespace(ns_class_name) == SplitOnce(ns_class_name, ":")

\* concat_namespace(a, b): the two joined by ":".
concat_namespace(a, b) == a \o <<":">> \o b

sParticipant == <<"p", "a", "r", "t", "i", "c", "i", "p", "a", "n", "t", " ">>

\* The character class [a-zA-Z\.0-9_] of parse_participant's pattern.
NameChars ==
    {"a", "b", "c", "d", "e", "f", "g", "h", "i", "j", "k", "l", "m", "n", "o",
     "p", "q", "r", "s", "t", "u", "v", "w", "x", "y", "z",
     "A", "B", "C", "D", "E", "F", "G", "H", "I", "J", "K", "L", "M", "N", "O",
     "P", "Q", "R", "S", "T", "U", "V", "W", "X", "Y", "Z",
     "0", "1", "2", "3", "4", "5", "6", "7", "8", "9", ".", "_"}

\* The 0-based index just past the run of name characters starting at i.
RECURSIVE NameEnd(_, _)
NameEnd(s, i) ==
    IF i < Len(s) /\ s[i + 1] \in NameChars THEN NameEnd(s, i + 1) ELSE i

\* re.findall(r"participant ([a-zA-Z\.0-9_]+)", s) from 0-based index i on.
RECURSIVE FindAllParticipants(_, _)
FindAllParticipants(s, i) ==
    IF i >= Len(s) THEN <<>>
    ELSE LET b == i + Len(sParticipant)
             e == NameEnd(s, b)
         IN  IF MatchesAt(s, sParticipant, i) /\ e > b
             THEN <<PySlice(s, b, e)>> \o FindAllParticipants(s, e)
             ELSE FindAllParticipants(s, i + 1)

\* parse_participant(mermaid_sequence_diagram)
parse_participant(mermaid_sequence_diagram) ==
    FindAllParticipants(mermaid_sequence_diagram, 0)

\* The first element of seq that is not in S, or PyNone.
RECURSIVE FirstNotIn(_, _)
FirstNotIn(seq, S) ==
    IF seq = <<>> THEN PyNone
    ELSE IF Head(seq) \in S THEN FirstNotIn(Tail(seq), S)
    ELSE Head(seq)

\* _search_new_participant raises ValueError when a has-participant object
\* does not split into (namespace, name).
SearchRaises(db, entry) ==
    /\ SelectSubject(db, entry.subject, GraphKeyword.HAS_SEQUENCE_VIEW) # {}
    /\ \E r \in SelectSubject(db, entry.subject, GraphKeyword.HAS_PARTICIPANT) :
           Len(split_namespace(r.object_)) # 2

\* _search_new_participant(entry): the first participant of the stored
\* sequence view that is not yet a merged participant of the entry.
search_new_participant(db, entry) ==
    LET rows == SelectSubject(db, entry.subject, GraphKeyword.HAS_SEQUENCE_VIEW)
    IN  IF rows = {} THEN PyNone
        ELSE LET sequence_view == (CHOOSE r \in rows : TRUE).object_
                 merged_participants ==
                     {split_namespace(r.object_)[2] :
                          r \in SelectSubject(db, entry.subject,
                                              GraphKeyword.HAS_PARTICIPANT)}
             IN  FirstNotIn(parse_participant(sequence_view), merged_participants)

\* A call outcome: whether it raised, and the repository it left.
Outcome(raised, db) == [raised |-> raised, db |-> db]

\* The serialized objects of the rows; their content is not inspected.
sJson == <<"{", "}">>

\* _rebuild_use_case(ns_class_name): blocks is the number of JSON code blocks
\* in the model's reply, failed is whether reading the source or the
\* model call raised.
rebuild_use_case(db, ns_class_name, blocks, failed) ==
    IF SelectSubject(db, ns_class_name, GraphKeyword.HAS_CLASS_USE_CASE) # {}
    THEN Outcome(FALSE, db)
    ELSE IF SelectSubject(db, ns_class_name, GraphKeyword.HAS_DETAIL) = {}
    THEN Outcome(FALSE, db)
    ELSE IF SelectSubject(db, ns_class_name, GraphKeyword.HAS_CLASS_VIEW) = {}
    THEN Outcome(TRUE, db)
    ELSE IF failed THEN Outcome(TRUE, db)
    ELSE IF blocks = 0 THEN Outcome(FALSE, db)
    ELSE Outcome(FALSE, Insert(db, ns_class_name,
                               GraphKeyword.HAS_CLASS_USE_CASE, sJson))

\* The tail of _merge_participant, when exactly one class carries the name.
MergeOneClass(db, participant, failed) ==
    IF SelectSubject(db, participant.subject, GraphKeyword.HAS_DETAIL) = {}
    THEN Outcome(FALSE, db)
    ELSE IF SelectSubject(db, participant.subject, GraphKeyword.HAS_CLASS_VIEW) = {}
    THEN Outcome(TRUE, db)
    ELSE IF failed THEN Outcome(TRUE, db)
    ELSE Outcome(FALSE, db)

\* _merge_participant(entry, class_name)
merge_participant(db, entry, class_name, blocks, failed) ==
    LET rows == SelectObject(db, GraphKeyword.IS, GraphKeyword.CLASS)
    IN  IF \E r \in rows : Len(split_namespace(r.subject)) # 2
        THEN Outcome(TRUE, db)
        ELSE LET participants ==
                     {r \in rows : split_namespace(r.subject)[2] = class_name}
             IN  IF participants = {}
                 THEN Outcome(FALSE,
                              Insert(db, entry.subject, GraphKeyword.HAS_PARTICIPANT,
                                     concat_namespace(<<"?">>, class_name)))
                 ELSE IF Cardinality(participants) > 1
                 THEN Outcome(FALSE,
                              db \cup {SPO(entry.subject, GraphKeyword.HAS_PARTICIPANT,
                                           r.object_) : r \in participants})
                 ELSE LET participant == CHOOSE r \in participants : TRUE
                          u == rebuild_use_case(db, participant.subject, blocks, failed)
                      IN  IF u.raised THEN u
                          ELSE MergeOneClass(u.db, participant, failed)

\* The classes of the entry's file, in the order of their subjects.
ClassesOfFile(db, filename) ==
    LET prefix == filename \o <<":">>
        rows == SelectObject(db, GraphKeyword.IS, GraphKeyword.CLASS)
    IN  SortedList({r.subject : r \in {x \in rows : PyIn(prefix, x.subject)}})

\* The loop of _rebuild_main_sequence_view over _rebuild_use_case.
RECURSIVE RebuildUseCases(_, _, _, _)
RebuildUseCases(db, subjects, blocks, failed) ==
    IF subjects = <<>> THEN Outcome(FALSE, db)
    ELSE LET u == rebuild_use_case(db, Head(subjects), blocks, failed)
         IN  IF u.raised THEN u
             ELSE RebuildUseCases(u.db, Tail(subjects), blocks, failed)

\* _rebuild_main_sequence_view(entry): sequence_view is the model's reply.
rebuild_main_sequence_view(db, entry, sequence_view, blocks, failed) ==
    LET filename == SplitOnce(entry.subject, ":")[1]
        classes == ClassesOfFile(db, filename)
        u == RebuildUseCases(db, classes, blocks, failed)
    IN  IF u.raised THEN u
        ELSE IF failed THEN Outcome(TRUE, u.db)
        ELSE Outcome(FALSE,
                     Insert(u.db, entry.subject, GraphKeyword.HAS_SEQUENCE_VIEW,
                            sequence_view)
                         \cup {SPO(entry.subject, GraphKeyword.HAS_PARTICIPANT,
                                   classes[i]) : i \in 1..Len(classes)})

sMainTag ==
    <<"_", "_", "n", "a", "m", "e", "_", "_", ":", "_", "_", "m", "a", "i",
      "n", "_", "_">>

\* _search_main_entry(): the has-page-info rows that carry the main tag.
search_main_entry(db) ==
    {r \in SelectPredicate(db, GraphKeyword.HAS_PAGE_INFO) :
         PyIn(sMainTag, r.subject) \/ PyIn(sMainTag, r.object_)}

\* stop_after_attempt(6) of the @retry on _merge_sequence_view.
stop_after_attempt == 6

(***************************************************************************)
(* RebuildSequenceView.run over one loaded graph repository                *)
(***************************************************************************)

\* the most participant lines in a sequence view
MaxParticipants == 2

\* the most merge rounds followed for one entry
MaxRounds == 3

sClassFA == <<"f", ":", "A">>

sClassGB == <<"g", ":", "B">>

sClassHB == <<"h", ":", "B">>

sMainF == <<"f", ":">> \o sMainTag

sMainG == <<"g", ":">> \o sMainTag

ParticipantNames == {<<"A">>, <<"B">>}

sSequenceDiagram ==
    <<"s", "e", "q", "u", "e", "n", "c", "e", "D", "i", "a", "g", "r", "a",
      "m", "\n">>

sMessageLine ==
    <<"A", "-", ">", ">", "B", ":", " ", "p", "a", "r", "t", "i", "c", "i",
      "p", "a", "n", "t", "\n">>

RECURSIVE ParticipantLines(_)
ParticipantLines(names) ==
    IF names = <<>> THEN <<>>
    ELSE sParticipant \o Head(names) \o <<"\n">> \o ParticipantLines(Tail(names))

\* A Mermaid sequence diagram declaring the given participants.
SequenceView(names) == sSequenceDiagram \o ParticipantLines(names) \o sMessageLine

SequenceViews ==
    {SequenceView(names) :
         names \in UNION {[1..n -> ParticipantNames] : n \in 0..MaxParticipants}}

\* The rows of one class: its kind, its detail, its class view.
ClassRows(subject, level) ==
    (IF level >= 1 THEN {SPO(subject, GraphKeyword.IS, GraphKeyword.CLASS)} ELSE {})
    \cup (IF level >= 2 THEN {SPO(subject, GraphKeyword.HAS_DETAIL, sJson)} ELSE {})
    \cup (IF level >= 3 THEN {SPO(subject, GraphKeyword.HAS_CLASS_VIEW, sJson)} ELSE {})

InitialGraphs ==
    {ClassRows(sClassFA, a) \cup ClassRows(sClassGB, b) \cup ClassRows(sClassHB, c)
         \cup {SPO(m, GraphKeyword.HAS_PAGE_INFO, sJson) : m \in mains}
         \cup {SPO(sClassFA, GraphKeyword.HAS_PAGE_INFO, sJson)} :
     a \in {0, 3}, b \in 0..3, c \in {0, 3}, mains \in SUBSET {sMainF, sMainG}}

InitSequence ==
    /\ pc = "start"
    /\ ParsersIdle
    /\ ClassesIdle
    /\ SymbolsIdle
    /\ NsIdle
    /\ RepairIdle
    /\ EdgeIdle
    /\ RebuildIdle
    /\ graph_db \in InitialGraphs
    /\ entries = <<>>
    /\ new_participant = NoValue
    /\ attempt = 1
    /\ handled = <<>>

otherThanSequence ==
    <<parserVars, classVars, symbolVars, nsVars, repairVars, edgeVars, rebuildVars>>

\* run: entries = await self._search_main_entry()
SearchMainEntry ==
    /\ pc = "start"
    /\ \E rows \in ListsOfSet(search_main_entry(graph_db)) :
           /\ entries' = rows
           /\ pc' = IF rows = <<>> THEN "save" ELSE "entry"
    /\ UNCHANGED <<graph_db, new_participant, attempt, handled, otherThanSequence>>

\* run: await self._rebuild_main_sequence_view(entry)
RebuildMainSequenceView ==
    /\ pc = "entry"
    /\ \E sequence_view \in SequenceViews, blocks \in 0..1, failed \in BOOLEAN :
           LET u == rebuild_main_sequence_view(graph_db, Head(entries),
                                               sequence_view, blocks, failed)
           IN  /\ graph_db' = u.db
               /\ pc' = IF u.raised THEN "raised" ELSE "merge"
    /\ new_participant' = NoValue
    /\ attempt' = 1
    /\ handled' = <<>>
    /\ UNCHANGED <<entries, otherThanSequence>>

\* What @retry does with an exception of _merge_sequence_view.
Retry ==
    IF attempt < stop_after_attempt
    THEN attempt' = attempt + 1 /\ UNCHANGED <<pc, entries>>
    ELSE pc' = "raised" /\ UNCHANGED <<attempt, entries>>

\* run: one evaluation of `while await self._merge_sequence_view(entry)`
MergeSequenceView ==
    /\ pc = "merge"
    /\ Len(handled) < MaxRounds
    /\ \E blocks \in 0..1, failed \in BOOLEAN :
           LET entry == Head(entries)
               p == search_new_participant(graph_db, entry)
               m == merge_participant(graph_db, entry, p, blocks, failed)
           IN  IF SearchRaises(graph_db, entry)
               THEN Retry /\ UNCHANGED <<graph_db, new_participant, handled>>
               ELSE IF p = PyNone
               THEN /\ new_participant' = p
                    /\ entries' = Tail(entries)
                    /\ pc' = IF Tail(entries) = <<>> THEN "save" ELSE "entry"
                    /\ attempt' = 1
                    /\ UNCHANGED <<graph_db, handled>>
               ELSE /\ new_participant' = p
                    /\ graph_db' = m.db
                    /\ IF m.raised
                       THEN Retry /\ UNCHANGED handled
                       ELSE /\ handled' = Append(handled, p)
                            /\ attempt' = 1
                            /\ UNCHANGED <<pc, entries>>
    /\ UNCHANGED otherThanSequence

\* run: await self.graph_db.save()
SaveGraph ==
    /\ pc = "save"
    /\ pc' = "done"
    /\ UNCHANGED <<sequenceVars, otherThanSequence>>

NextSequence ==
    \/ SearchMainEntry
    \/ RebuildMainSequenceView
    \/ MergeSequenceView
    \/ SaveGraph

SpecSequence == InitSequence /\ [][NextSequence]_vars

\* The distinct participants of the sequence view stored for the entry.
DistinctParticipants ==
    IF entries = <<>> THEN {}
    ELSE UNION {Range(parse_participant(r.object_)) :
                    r \in SelectSubject(graph_db, Head(entries).subject,
                                        GraphKeyword.HAS_SEQUENCE_VIEW)}

\* C20: in the loop `while await self._merge_sequence_view(entry)` no
\* participant name is handled twice for an entry, so the successful merge
\* rounds of an entry never outnumber the distinct participants of its stored
\* sequence view.
C20_MergeRoundsAreBounded ==
    pc = "merge" =>
        /\ \A i, j \in 1..Len(handled) : handled[i] = handled[j] => i = j
        /\ Len(handled) <= Cardinality(DistinctParticipants)

=============================================================================
